---- MODULE Spec2Model ----
(***************************************************************************)
(* Model of the 3D bin packing engine packBoxes(container, boxTypes) of    *)
(* the shipping container visualizer (utils/packingAlgorithm.ts).          *)
(*                                                                         *)
(* Numbers.  Every dimension of one input is a multiple of 1/den cm and is *)
(* held as its integer numerator; den is 1 (whole centimetres) or 32       *)
(* (multiples of 1/32 cm).  Such values, their sums and differences are    *)
(* exact IEEE doubles, so positions and extents are computed by the model  *)
(* exactly as the code computes them.  The comparison with 0.1 becomes     *)
(* 10*|d| < den and the comparison with 1 becomes n > den.  Volumes are    *)
(* numerators over den^3.  The utilization percentage is computed in a     *)
(* bit-level model of double arithmetic (FDiv, FMulSmall, MathRound).      *)
(*                                                                         *)
(* The recalculation flow of the visualizer (components/Visualizer3D.tsx), *)
(* which calls packBoxes from a timer callback, is modelled on top of the  *)
(* same state machine (SpecVisualizer).                                    *)
(***************************************************************************)
EXTENDS Integers, Sequences, FiniteSets

VARIABLES
    den,            \* denominator of every dimension of this input
    container,      \* argument container: [length, width, height]
    boxTypes,       \* argument boxTypes: sequence of BoxType records
    pc,             \* "start", "loop" or "done": position inside packBoxes
    boxesToPlace,   \* the expanded, sorted units
    unitIdx,        \* 1-based index of the unit the for loop is at
    spaces,         \* the list of available spaces
    packedBoxes,    \* the PackedBox list
    unpackedCounts, \* the Map id -> count, as a sequence in insertion order
    result,         \* the PackingResult once pc = "done"
    discarded,      \* history: the spaces the filter removed in this call
    earlier,        \* history: the arguments and result of an earlier call
    ui              \* the visualizer's state, timers and closures

vars == <<den, container, boxTypes, pc, boxesToPlace, unitIdx, spaces,
          packedBoxes, unpackedCounts, result, discarded, earlier, ui>>

----------------------------------------------------------------------------
(* Bounds of the explored inputs *)

MaxSpecs == 2
MaxUnits == 4

----------------------------------------------------------------------------
(* Generic helpers *)

Abs(n) == IF n < 0 THEN -n ELSE n

Min(S) == CHOOSE m \in S : \A n \in S : m <= n

Range(s) == {s[i] : i \in 1..Len(s)}

RECURSIVE SumSeq(_)
SumSeq(s) == IF s = <<>> THEN 0 ELSE Head(s) + SumSeq(Tail(s))

Volume(b) == b.length * b.width * b.height

----------------------------------------------------------------------------
(* boxFitsInSpace without the test of the length *)
boxFitsInSpaceNoLength(boxL, boxW, boxH, space) ==
    boxW <= space.width /\ boxH <= space.height

(* boxFitsInSpace comparing volumes instead of extents *)
boxFitsInSpaceByVolume(boxL, boxW, boxH, space) ==
    boxL * boxW * boxH <= space.length * space.width * space.height

(* boxFitsInSpace *)

boxFitsInSpace(boxL, boxW, boxH, space) ==
    boxL <= space.length /\ boxW <= space.width /\ boxH <= space.height

(* getRotations without the fragile case *)
getRotationsAllSix(box) ==
    LET l == box.length
        w == box.width
        h == box.height
    IN  << <<l, w, h>>, <<l, h, w>>, <<w, l, h>>,
           <<w, h, l>>, <<h, l, w>>, <<h, w, l>> >>

(* getRotations: [length, width, height] of each allowed orientation *)
getRotations(box) ==
    LET l == box.length
        w == box.width
        h == box.height
    IN  IF box.isFragile
        THEN << <<l, w, h>>, <<w, l, h>> >>
        ELSE << <<l, w, h>>, <<l, h, w>>, <<w, l, h>>,
                <<w, h, l>>, <<h, l, w>>, <<h, w, l>> >>

(* getRotationFromDimensions testing the swapped extents first *)
getRotationFromDimensionsSwapFirst(original, rotated) ==
    LET rl == rotated[1]
        rw == rotated[2]
        rh == rotated[3]
    IN  IF rl = original.width /\ rw = original.length /\ rh = original.height
        THEN [x |-> 0, y |-> 1, z |-> 0]
        ELSE [x |-> 0, y |-> 0, z |-> 0]

(* getRotationFromDimensions; y counts quarter turns (1 stands for PI/2) *)
getRotationFromDimensions(original, rotated) ==
    LET rl == rotated[1]
        rw == rotated[2]
        rh == rotated[3]
    IN  IF rl = original.length /\ rw = original.width /\ rh = original.height
        THEN [x |-> 0, y |-> 0, z |-> 0]
        ELSE IF rl = original.width /\ rw = original.length /\ rh = original.height
        THEN [x |-> 0, y |-> 1, z |-> 0]
        ELSE [x |-> 0, y |-> 0, z |-> 0]

(* Math.abs(a - b) < 0.1 on numerators over den *)
Near(a, b) == 10 * Abs(a - b) < den

(* the horizontal overlap test of checkFragilityConstraint: the box at     *)
(* position p with extents d against the packed box f                      *)
FootprintOverlap(p, d, f) ==
    /\ p.x < f.position.x + f.dimensions.length
    /\ p.x + d.length > f.position.x
    /\ p.z < f.position.z + f.dimensions.width
    /\ p.z + d.width > f.position.z

(* the stackCount filter of checkFragilityConstraint *)
stackCount(packed, f) ==
    LET fragileTop == f.position.y + f.dimensions.height
    IN  Cardinality({i \in 1..Len(packed) :
            /\ Near(packed[i].position.y, fragileTop)
            /\ FootprintOverlap(packed[i].position, packed[i].dimensions, f)})

MaxOnFragile == 2

(* checkFragilityConstraint without the test of the new box's footprint *)
checkFragilityConstraintAnyFootprint(packed, newBox, position, dimensions) ==
    \A i \in 1..Len(packed) :
        LET f == packed[i]
            fragileTop == f.position.y + f.dimensions.height
        IN  ~ ( /\ f.boxType.isFragile
                /\ Near(position.y, fragileTop)
                /\ stackCount(packed, f) >= MaxOnFragile )

(* checkFragilityConstraint limiting the boxes on every box, fragile or not *)
checkFragilityConstraintAnyBox(packed, newBox, position, dimensions) ==
    \A i \in 1..Len(packed) :
        LET f == packed[i]
            fragileTop == f.position.y + f.dimensions.height
        IN  ~ ( /\ Near(position.y, fragileTop)
                /\ FootprintOverlap(position, dimensions, f)
                /\ stackCount(packed, f) >= MaxOnFragile )

(* checkFragilityConstraint rejecting only above the limit (> for >=) *)
checkFragilityConstraintOffByOne(packed, newBox, position, dimensions) ==
    \A i \in 1..Len(packed) :
        LET f == packed[i]
            fragileTop == f.position.y + f.dimensions.height
        IN  ~ ( /\ f.boxType.isFragile
                /\ Near(position.y, fragileTop)
                /\ FootprintOverlap(position, dimensions, f)
                /\ stackCount(packed, f) > MaxOnFragile )

checkFragilityConstraint(packed, newBox, position, dimensions) ==
    \A i \in 1..Len(packed) :
        LET f == packed[i]
            fragileTop == f.position.y + f.dimensions.height
        IN  ~ ( /\ f.boxType.isFragile
                /\ Near(position.y, fragileTop)
                /\ FootprintOverlap(position, dimensions, f)
                /\ stackCount(packed, f) >= MaxOnFragile )

(* a split whose front residual runs along the whole length of the space   *)
splitSpaceLongFront(space, boxL, boxW, boxH) ==
    (IF space.length - boxL > 0
     THEN << [x |-> space.x + boxL, y |-> space.y, z |-> space.z,
              length |-> space.length - boxL, width |-> space.width,
              height |-> space.height] >>
     ELSE <<>>)
    \o
    (IF space.width - boxW > 0
     THEN << [x |-> space.x, y |-> space.y, z |-> space.z + boxW,
              length |-> space.length, width |-> space.width - boxW,
              height |-> space.height] >>
     ELSE <<>>)
    \o
    (IF space.height - boxH > 0
     THEN << [x |-> space.x, y |-> space.y + boxH, z |-> space.z,
              length |-> boxL, width |-> boxW,
              height |-> space.height - boxH] >>
     ELSE <<>>)

(* a split that leaves out the residual above the box *)
splitSpaceNoAbove(space, boxL, boxW, boxH) ==
    (IF space.length - boxL > 0
     THEN << [x |-> space.x + boxL, y |-> space.y, z |-> space.z,
              length |-> space.length - boxL, width |-> space.width,
              height |-> space.height] >>
     ELSE <<>>)
    \o
    (IF space.width - boxW > 0
     THEN << [x |-> space.x, y |-> space.y, z |-> space.z + boxW,
              length |-> boxL, width |-> space.width - boxW,
              height |-> space.height] >>
     ELSE <<>>)

(* a split that keeps a residual whose remaining extent is 0 *)
splitSpaceKeepingEmpty(space, boxL, boxW, boxH) ==
    (IF space.length - boxL >= 0
     THEN << [x |-> space.x + boxL, y |-> space.y, z |-> space.z,
              length |-> space.length - boxL, width |-> space.width,
              height |-> space.height] >>
     ELSE <<>>)
    \o
    (IF space.width - boxW >= 0
     THEN << [x |-> space.x, y |-> space.y, z |-> space.z + boxW,
              length |-> boxL, width |-> space.width - boxW,
              height |-> space.height] >>
     ELSE <<>>)
    \o
    (IF space.height - boxH >= 0
     THEN << [x |-> space.x, y |-> space.y + boxH, z |-> space.z,
              length |-> boxL, width |-> boxW,
              height |-> space.height - boxH] >>
     ELSE <<>>)

(* a split whose right residual is only as high as the box *)
splitSpaceLowRight(space, boxL, boxW, boxH) ==
    (IF space.length - boxL > 0
     THEN << [x |-> space.x + boxL, y |-> space.y, z |-> space.z,
              length |-> space.length - boxL, width |-> space.width,
              height |-> boxH] >>
     ELSE <<>>)
    \o
    (IF space.width - boxW > 0
     THEN << [x |-> space.x, y |-> space.y, z |-> space.z + boxW,
              length |-> boxL, width |-> space.width - boxW,
              height |-> space.height] >>
     ELSE <<>>)
    \o
    (IF space.height - boxH > 0
     THEN << [x |-> space.x, y |-> space.y + boxH, z |-> space.z,
              length |-> boxL, width |-> boxW,
              height |-> space.height - boxH] >>
     ELSE <<>>)

(* a split whose above residual covers the whole footprint of the space *)
splitSpaceWideAbove(space, boxL, boxW, boxH) ==
    (IF space.length - boxL > 0
     THEN << [x |-> space.x + boxL, y |-> space.y, z |-> space.z,
              length |-> space.length - boxL, width |-> space.width,
              height |-> space.height] >>
     ELSE <<>>)
    \o
    (IF space.width - boxW > 0
     THEN << [x |-> space.x, y |-> space.y, z |-> space.z + boxW,
              length |-> boxL, width |-> space.width - boxW,
              height |-> space.height] >>
     ELSE <<>>)
    \o
    (IF space.height - boxH > 0
     THEN << [x |-> space.x, y |-> space.y + boxH, z |-> space.z,
              length |-> space.length, width |-> space.width,
              height |-> space.height - boxH] >>
     ELSE <<>>)

(* splitSpace: the guillotine split, residuals in the order right, front,  *)
(* above                                                                   *)
splitSpace(space, boxL, boxW, boxH) ==
    (IF space.length - boxL > 0
     THEN << [x |-> space.x + boxL, y |-> space.y, z |-> space.z,
              length |-> space.length - boxL, width |-> space.width,
              height |-> space.height] >>
     ELSE <<>>)
    \o
    (IF space.width - boxW > 0
     THEN << [x |-> space.x, y |-> space.y, z |-> space.z + boxW,
              length |-> boxL, width |-> space.width - boxW,
              height |-> space.height] >>
     ELSE <<>>)
    \o
    (IF space.height - boxH > 0
     THEN << [x |-> space.x, y |-> space.y + boxH, z |-> space.z,
              length |-> boxL, width |-> boxW,
              height |-> space.height - boxH] >>
     ELSE <<>>)

----------------------------------------------------------------------------
(* Demand expansion and ordering *)

(* an expansion that numbers the units of a box type downwards *)
UnitsOfCountingDown(boxType) ==
    [i \in 1..boxType.quantity |->
        [boxType |-> boxType, index |-> boxType.quantity - i]]

(* the inner for loop: quantity units of one box type, index 0..quantity-1 *)
UnitsOf(boxType) ==
    [i \in 1..boxType.quantity |-> [boxType |-> boxType, index |-> i - 1]]

RECURSIVE ExpandBoxTypes(_)
ExpandBoxTypes(bts) ==
    IF bts = <<>> THEN <<>>
    ELSE UnitsOf(Head(bts)) \o ExpandBoxTypes(Tail(bts))

(* the comparator of boxesToPlace.sort: negative when a goes before b *)
VolumeCompare(a, b) == Volume(b.boxType) - Volume(a.boxType)

(* an insertion that puts e before the elements it compares equal to *)
RECURSIVE InsertUnitBeforeEqual(_, _)
InsertUnitBeforeEqual(sorted, e) ==
    IF sorted = <<>> THEN <<e>>
    ELSE IF VolumeCompare(Head(sorted), e) < 0
         THEN <<Head(sorted)>> \o InsertUnitBeforeEqual(Tail(sorted), e)
         ELSE <<e>> \o sorted

(* Array.prototype.sort is stable: insert e after every element that does  *)
(* not compare greater than it                                             *)
RECURSIVE InsertUnit(_, _)
InsertUnit(sorted, e) ==
    IF sorted = <<>> THEN <<e>>
    ELSE IF VolumeCompare(Head(sorted), e) <= 0
         THEN <<Head(sorted)>> \o InsertUnit(Tail(sorted), e)
         ELSE <<e>> \o sorted

RECURSIVE SortUnits(_)
SortUnits(s) ==
    IF s = <<>> THEN <<>>
    ELSE InsertUnit(SortUnits(SubSeq(s, 1, Len(s) - 1)), s[Len(s)])

----------------------------------------------------------------------------
(* Free-space list maintenance *)

InitialSpaces(c) ==
    << [x |-> 0, y |-> 0, z |-> 0,
        length |-> c.length, width |-> c.width, height |-> c.height] >>

(* a comparator by x, then y, then z *)
SpaceCompareXFirst(a, b) ==
    IF a.x # b.x THEN a.x - b.x
    ELSE IF a.y # b.y THEN a.y - b.y
    ELSE a.z - b.z

(* the comparator of spaces.sort: by y, then x, then z *)
SpaceCompare(a, b) ==
    IF a.y # b.y THEN a.y - b.y
    ELSE IF a.x # b.x THEN a.x - b.x
    ELSE a.z - b.z

RECURSIVE InsertSpace(_, _)
InsertSpace(sorted, e) ==
    IF sorted = <<>> THEN <<e>>
    ELSE IF SpaceCompare(Head(sorted), e) <= 0
         THEN <<Head(sorted)>> \o InsertSpace(Tail(sorted), e)
         ELSE <<e>> \o sorted

(* a list left in the order the splice gave it *)
SortSpacesKeepingOrder(s) == s

RECURSIVE SortSpaces(_)
SortSpaces(s) ==
    IF s = <<>> THEN <<>>
    ELSE InsertSpace(SortSpaces(SubSeq(s, 1, Len(s) - 1)), s[Len(s)])

(* splice that inserts the new spaces and removes nothing *)
SpliceKeepingUsed(s, idx, newSpaces) ==
    SubSeq(s, 1, idx - 1) \o newSpaces \o SubSeq(s, idx, Len(s))

(* spaces.splice(spaceIdx, 1, ...newSpaces) *)
Splice(s, idx, newSpaces) ==
    SubSeq(s, 1, idx - 1) \o newSpaces \o SubSeq(s, idx + 1, Len(s))

(* the filter predicate: length, width and height all > 1 *)
BigEnough(s) == s.length > den /\ s.width > den /\ s.height > den

RECURSIVE FilterSpaces(_)
FilterSpaces(s) ==
    IF s = <<>> THEN <<>>
    ELSE (IF BigEnough(Head(s)) THEN <<Head(s)>> ELSE <<>>)
         \o FilterSpaces(Tail(s))

(* the spaces the filter removes from s *)
RECURSIVE SmallSpaces(_)
SmallSpaces(s) ==
    IF s = <<>> THEN <<>>
    ELSE (IF BigEnough(Head(s)) THEN <<>> ELSE <<Head(s)>>)
         \o SmallSpaces(Tail(s))

----------------------------------------------------------------------------
(* Placement search *)

(* the two tests a (space, rotation) pair passes before the box is placed *)
Feasible(boxType, space, rot) ==
    /\ boxFitsInSpace(rot[1], rot[2], rot[3], space)
    /\ checkFragilityConstraint(packedBoxes, boxType,
           [x |-> space.x, y |-> space.y, z |-> space.z],
           [length |-> rot[1], width |-> rot[2], height |-> rot[3]])

FeasibleRots(boxType, space) ==
    {r \in 1..Len(getRotations(boxType)) :
        Feasible(boxType, space, getRotations(boxType)[r])}

(* a search with the loops exchanged: the first rotation that is feasible  *)
(* in some space, with the first space it is feasible in                   *)
FirstFitByRotation(boxType) ==
    LET rots == getRotations(boxType)
        ok == {r \in 1..Len(rots) :
                 \E i \in 1..Len(spaces) : Feasible(boxType, spaces[i], rots[r])}
    IN  IF ok = {} THEN [idx |-> 0, rot |-> <<>>]
        ELSE LET r == CHOOSE i \in ok : \A j \in ok : i <= j
                 is == {i \in 1..Len(spaces) :
                          Feasible(boxType, spaces[i], rots[r])}
             IN  [idx |-> CHOOSE i \in is : \A j \in is : i <= j,
                  rot |-> rots[r]]

(* the nested search of packBoxes: the first space in list order that has  *)
(* a feasible rotation, with its first feasible rotation; idx = 0 if none  *)
FirstFit(boxType) ==
    LET ok == {i \in 1..Len(spaces) : FeasibleRots(boxType, spaces[i]) # {}}
    IN  IF ok = {} THEN [idx |-> 0, rot |-> <<>>]
        ELSE LET idx == CHOOSE i \in ok : \A j \in ok : i <= j
                 rs == FeasibleRots(boxType, spaces[idx])
                 r == CHOOSE i \in rs : \A j \in rs : i <= j
             IN  [idx |-> idx, rot |-> getRotations(boxType)[r]]


----------------------------------------------------------------------------
(* IEEE-754 double arithmetic, as far as the statistics need it.  A        *)
(* positive double is [m, e]: m is its 53-bit significand, most            *)
(* significant bit first, and e the binary exponent of m's last bit, so    *)
(* the value is m * 2^e.  Zero is [m |-> <<>>, e |-> 0].  Every operation  *)
(* rounds to nearest, ties to even.  Intermediate quantities are held in   *)
(* base-2^8 digits or base-2^16 limbs so that they fit the checker's       *)
(* integers; operands of FDiv are below 2^23.                              *)

MantissaBits == 53

FZero == [m |-> <<>>, e |-> 0]

Pow2(n) == <<1, 2, 4, 8, 16, 32, 64, 128, 256, 512, 1024, 2048, 4096, 8192,
             16384, 32768, 65536>>[n + 1]

(* bit j (1 = most significant) of the w-bit number d *)
BitOf(d, w, j) == (d \div Pow2(w - j)) % 2

RECURSIVE BitsToInt(_)
BitsToInt(bits) ==
    IF bits = <<>> THEN 0
    ELSE 2 * BitsToInt(SubSeq(bits, 1, Len(bits) - 1)) + bits[Len(bits)]

(* m + 1 for a significand m; all ones carries into a longer sequence *)
IncBits(m) ==
    LET zeros == {j \in 1..Len(m) : m[j] = 0}
    IN  IF zeros = {} THEN <<1>> \o [j \in 1..Len(m) |-> 0]
        ELSE LET z == CHOOSE j \in zeros : \A k \in zeros : k <= j
             IN  [j \in 1..Len(m) |->
                    IF j < z THEN m[j] ELSE IF j = z THEN 1 ELSE 0]

(* the double nearest to the positive number bits * 2^eLast (+ a non-zero  *)
(* amount below the last bit when sticky): normalise to the leading 1,     *)
(* keep 53 bits, round to nearest, ties to even                            *)
RoundBits(bits, eLast, sticky) ==
    LET n == Len(bits)
        p == CHOOSE i \in 1..n : bits[i] = 1 /\ \A k \in 1..(i - 1) : bits[k] = 0
        bit(i) == IF i <= n THEN bits[i] ELSE 0
        m == [j \in 1..MantissaBits |-> bit(p + j - 1)]
        e == eLast + (n - (p + MantissaBits - 1))
        half == bit(p + MantissaBits)
        rest == sticky \/ \E i \in (p + MantissaBits + 1)..n : bits[i] = 1
        up == half = 1 /\ (rest \/ m[MantissaBits] = 1)
        inc == IncBits(m)
    IN  IF ~up THEN [m |-> m, e |-> e]
        ELSE IF Len(inc) > MantissaBits
             THEN [m |-> SubSeq(inc, 1, MantissaBits), e |-> e + 1]
             ELSE [m |-> inc, e |-> e]

FracDigitCount == 12

(* long division below the binary point in base 2^8: the first n digits of *)
(* r / c (r < c) and the remainder left after them                         *)
RECURSIVE FracDigits(_, _, _)
FracDigits(r, c, n) ==
    IF n = 0 THEN [digits |-> <<>>, rem |-> r]
    ELSE LET rest == FracDigits((r * 256) % c, c, n - 1)
         IN  [digits |-> <<(r * 256) \div c>> \o rest.digits, rem |-> rest.rem]

(* u / c for integers u >= 0 and 0 < c < 2^23 *)
FDiv(u, c) ==
    IF u = 0 THEN FZero
    ELSE LET ip == u \div c
             fd == FracDigits(u % c, c, FracDigitCount)
             bits == [i \in 1..(32 + 8 * FracDigitCount) |->
                        IF i <= 16 THEN BitOf(ip \div 65536, 16, i)
                        ELSE IF i <= 32 THEN BitOf(ip % 65536, 16, i - 16)
                        ELSE BitOf(fd.digits[((i - 33) \div 8) + 1], 8,
                                   ((i - 33) % 8) + 1)]
         IN  RoundBits(bits, -(8 * FracDigitCount), fd.rem # 0)

(* limb j (0 = least significant 16 bits) of the significand m *)
Limb(m, j) ==
    BitsToInt(SubSeq(m, IF j = 3 THEN 1 ELSE MantissaBits - 16 * j - 15,
                     MantissaBits - 16 * j))

(* f * k for a small positive integer k *)
FMulSmall(f, k) ==
    IF f.m = <<>> THEN FZero
    ELSE LET p0 == Limb(f.m, 0) * k
             p1 == Limb(f.m, 1) * k + (p0 \div 65536)
             p2 == Limb(f.m, 2) * k + (p1 \div 65536)
             p3 == Limb(f.m, 3) * k + (p2 \div 65536)
             limbs == <<p3 \div 65536, p3 % 65536, p2 % 65536,
                        p1 % 65536, p0 % 65536>>
             bits == [i \in 1..80 |->
                        BitOf(limbs[((i - 1) \div 16) + 1], 16,
                              ((i - 1) % 16) + 1)]
         IN  RoundBits(bits, f.e, FALSE)

(* Math.round of a non-negative double below 2^31: the nearest integer,    *)
(* a tie going up                                                          *)
MathRound(f) ==
    IF f.m = <<>> THEN 0
    ELSE LET intLen == MantissaBits + f.e
             halfIdx == intLen + 1
         IN  (IF intLen >= 1 THEN BitsToInt(SubSeq(f.m, 1, intLen)) ELSE 0)
             + (IF halfIdx >= 1 /\ halfIdx <= MantissaBits
                THEN f.m[halfIdx] ELSE 0)

(* the percentage scaled by 100 twice *)
UtilizationHundredths(usedVolume, containerVolume) ==
    MathRound(FMulSmall(FMulSmall(FDiv(usedVolume, containerVolume), 100), 100))

(* Math.round((usedVolume / containerVolume) * 100 * 10): the utilization  *)
(* percentage in tenths; the code's final / 10 maps n to the double        *)
(* nearest n/10, one to one                                                *)
UtilizationTenths(usedVolume, containerVolume) ==
    MathRound(FMulSmall(FMulSmall(FDiv(usedVolume, containerVolume), 100), 10))

----------------------------------------------------------------------------
(* Inputs: a container and an ordered list of box types with unique ids *)

Ids == <<"electronics", "textiles", "books", "ceramics">>
Names == <<"Electronics", "Textiles", "Books", "Ceramics">>
Weights == <<10, 3, 8, 5>>
Colors == <<"#FF6B6B", "#4ECDC4", "#95E1D3", "#F38181">>

BoxType(i, l, w, h, fragile, q) ==
    [id |-> Ids[i], name |-> Names[i], length |-> l, width |-> w,
     height |-> h, weight |-> Weights[i], isFragile |-> fragile,
     color |-> Colors[i], quantity |-> q]

(* A family of inputs: a container and the extents its box types take.    *)
(* Whole centimetres: flat boxes 2 or 4 cm long and wide in a 4 x 4 x 6    *)
(* container, and boxes 2 cm wide in a 6 x 4 x 4 container.  Multiples of  *)
(* 1/32 cm: boxes 1/32 cm or 2 cm high in a 2 cm cube.                     *)
Families ==
    { [den |-> 1, container |-> [length |-> 4, width |-> 4, height |-> 6],
       L |-> {2, 4}, W |-> {2, 4}, H |-> {2}],
      [den |-> 1, container |-> [length |-> 6, width |-> 4, height |-> 4],
       L |-> {2, 4}, W |-> {2}, H |-> {2, 4}],
      [den |-> 32, container |-> [length |-> 64, width |-> 64, height |-> 64],
       L |-> {64}, W |-> {64}, H |-> {1, 64}] }

(* the shapes of one box type; a box type of quantity 0 contributes no     *)
(* unit, so one shape stands for all of them                               *)
Shapes(fam) ==
    {s \in [length : fam.L, width : fam.W, height : fam.H,
            isFragile : BOOLEAN, quantity : 0..MaxUnits] :
        s.quantity = 0 =>
            /\ s.length = Min(fam.L) /\ s.width = Min(fam.W)
            /\ s.height = Min(fam.H) /\ ~s.isFragile}

(* the box type list of a list of shapes: ids by position *)
BoxTypesOf(sh) ==
    [i \in 1..Len(sh) |->
        BoxType(i, sh[i].length, sh[i].width, sh[i].height,
                sh[i].isFragile, sh[i].quantity)]

TotalQuantity(bts) == SumSeq([i \in 1..Len(bts) |-> bts[i].quantity])

Input(d, c, bts) == [den |-> d, container |-> c, boxTypes |-> bts]

(* the scenarios the specification names, and a 4 x 4 x 5 container with   *)
(* a 2 x 2 x 5 and a 1 x 1 x 3 box                                         *)
ScenarioA ==
    Input(1, [length |-> 100, width |-> 100, height |-> 100],
          << BoxType(1, 50, 50, 50, FALSE, 1) >>)

ScenarioB ==
    Input(1, [length |-> 10, width |-> 10, height |-> 10],
          << BoxType(1, 20, 20, 20, FALSE, 1) >>)

ScenarioC ==
    Input(1, [length |-> 100, width |-> 100, height |-> 10],
          << BoxType(1, 10, 10, 5, TRUE, 5) >>)

ScenarioTie ==
    Input(1, [length |-> 4, width |-> 4, height |-> 5],
          << BoxType(1, 2, 2, 5, FALSE, 1), BoxType(2, 1, 1, 3, FALSE, 1) >>)

(* a 6 x 4 x 4 container with a fragile and a non-fragile 2 x 2 x 6 box    *)
(* and two 8 x 2 x 2 boxes: the fragile one is too high standing, the      *)
(* 8 cm ones too long on every axis                                        *)
ScenarioTall ==
    Input(1, [length |-> 6, width |-> 4, height |-> 4],
          << BoxType(1, 2, 2, 6, TRUE, 1), BoxType(2, 2, 2, 6, FALSE, 1),
             BoxType(3, 8, 2, 2, FALSE, 2) >>)

(* a 6 x 4 x 4 container with two boxes that leave a 2 x 2 x 4, a          *)
(* 2 x 4 x 4 and a 4 x 2 x 2 space, and a fragile 4 x 2 x 2 box: turned it  *)
(* fits the second space, unturned the third                               *)
ScenarioNested ==
    Input(1, [length |-> 6, width |-> 4, height |-> 4],
          << BoxType(1, 4, 2, 2, FALSE, 1), BoxType(2, 2, 2, 4, FALSE, 1),
             BoxType(3, 4, 2, 2, TRUE, 1) >>)

(* an 8 x 2 x 4 container with a fragile 6 x 2 x 2 box and four 2 x 2 x 2  *)
(* boxes: one goes beside the fragile box, two on it, and the last finds   *)
(* room on the fragile box and on the box beside it, at the same height    *)
ScenarioBeside ==
    Input(1, [length |-> 8, width |-> 2, height |-> 4],
          << BoxType(1, 6, 2, 2, TRUE, 1), BoxType(2, 2, 2, 2, FALSE, 4) >>)

(* a container 1 cm long with two 1 x 2 x 2 boxes: the container space is  *)
(* no longer than the spaces the filter removes                            *)
ScenarioThin ==
    Input(1, [length |-> 1, width |-> 4, height |-> 4],
          << BoxType(1, 1, 2, 2, FALSE, 2) >>)

(* a 6 x 4 x 4 container with a 5 x 2 x 2 box, which leaves a space 1 cm   *)
(* long, and two 2 x 2 x 2 boxes                                           *)
ScenarioSliver ==
    Input(1, [length |-> 6, width |-> 4, height |-> 4],
          << BoxType(1, 5, 2, 2, FALSE, 1), BoxType(2, 2, 2, 2, FALSE, 2) >>)

(* a 6 x 2 x 4 container with a 2 x 2 x 4 box, a fragile 2 x 4 x 2 box,    *)
(* which fits only turned a quarter, and another 2 x 2 x 4 box, which fits *)
(* only lying on the fragile one                                           *)
ScenarioTurned ==
    Input(1, [length |-> 6, width |-> 2, height |-> 4],
          << BoxType(1, 2, 2, 4, FALSE, 1), BoxType(2, 2, 4, 2, TRUE, 1),
             BoxType(3, 2, 2, 4, FALSE, 1) >>)

(* a 6 x 3 x 6 container with two fragile 4 x 3 x 2 boxes, which fit the   *)
(* floor once, and three 2 x 2 x 2 boxes: the second fragile box goes on   *)
(* the first while floor is left beside them                               *)
ScenarioLedge ==
    Input(1, [length |-> 6, width |-> 3, height |-> 6],
          << BoxType(1, 4, 3, 2, TRUE, 2), BoxType(2, 2, 2, 2, FALSE, 3) >>)

ScenarioInputs ==
    {ScenarioA, ScenarioB, ScenarioC, ScenarioTie, ScenarioTall, ScenarioNested,
     ScenarioBeside, ScenarioThin, ScenarioSliver, ScenarioTurned,
     ScenarioLedge}


----------------------------------------------------------------------------
(* The state machine of one invocation of packBoxes *)

NoResult == [success |-> FALSE, boxes |-> <<>>, unpacked |-> <<>>,
             stats |-> [totalBoxes |-> 0, packedBoxes |-> 0,
                        unpackedBoxes |-> 0, containerVolume |-> 0,
                        usedVolume |-> 0, utilizationPercent |-> 0,
                        totalWeight |-> 0]]

(* the arguments: a scenario, or a container of a family with at most      *)
(* MaxSpecs box types of that family asking for at most MaxUnits units     *)
InitInput ==
    \/ \E in \in ScenarioInputs :
            /\ den = in.den
            /\ container = in.container
            /\ boxTypes = in.boxTypes
    \/ \E fam \in Families, n \in 0..MaxSpecs :
            \E sh \in [1..n -> Shapes(fam)] :
                /\ TotalQuantity(sh) <= MaxUnits
                /\ den = fam.den
                /\ container = fam.container
                /\ boxTypes = BoxTypesOf(sh)

(* no visualizer is mounted: packBoxes is called directly *)
NoVisualizer ==
    [boxTypes |-> <<>>, isRecalculating |-> FALSE, packingResult |-> NoResult,
     timers |-> <<>>, running |-> FALSE, clicked |-> <<>>, edited |-> FALSE]

NoCall == [called |-> FALSE, den |-> 0,
           container |-> [length |-> 0, width |-> 0, height |-> 0],
           boxTypes |-> <<>>, result |-> NoResult, between |-> FALSE]

Init ==
    /\ InitInput
    /\ pc = "start"
    /\ boxesToPlace = <<>>
    /\ unitIdx = 1
    /\ spaces = <<>>
    /\ packedBoxes = <<>>
    /\ unpackedCounts = <<>>
    /\ result = NoResult
    /\ discarded = <<>>
    /\ earlier = NoCall
    /\ ui = NoVisualizer

(* a list that is never emptied between calls *)
RetainedPackedBoxes == packedBoxes

(* const packedBoxes: PackedBox[] = [] *)
FreshPackedBoxes == <<>>

(* const unpackedCounts: Map<string, number> = new Map() *)
FreshUnpackedCounts == <<>>

(* the head of packBoxes(c, bts): expand the box types into units, sort    *)
(* them, start with the container as the only space and with empty lists   *)
Enter(c, bts) ==
    /\ boxesToPlace' = SortUnits(ExpandBoxTypes(bts))
    /\ spaces' = InitialSpaces(c)
    /\ packedBoxes' = FreshPackedBoxes
    /\ unpackedCounts' = FreshUnpackedCounts
    /\ unitIdx' = 1
    /\ discarded' = <<>>
    /\ pc' = "loop"

Start ==
    /\ pc = "start"
    /\ Enter(container, boxTypes)
    /\ UNCHANGED <<den, container, boxTypes, result, earlier, ui>>

(* the PackedBox built for a unit in a space with a rotation *)
MakePackedBox(unit, space, rot) ==
    [id |-> <<unit.boxType.id, unit.index>>,
     boxType |-> unit.boxType,
     position |-> [x |-> space.x, y |-> space.y, z |-> space.z],
     rotation |-> getRotationFromDimensions(unit.boxType, rot),
     dimensions |-> [length |-> rot[1], width |-> rot[2], height |-> rot[3]]]

(* a split by the extents of the box type as given, not as rotated *)
SpacesAfterUnrotated(idx, rot) ==
    LET t == boxesToPlace[unitIdx].boxType
    IN  FilterSpaces(SortSpaces(
            Splice(spaces, idx,
                   splitSpace(spaces[idx], t.length, t.width, t.height))))

(* the space list after the box with rotation rot went into spaces[idx]:   *)
(* split, splice, sort, filter                                             *)
SpacesAfter(idx, rot) ==
    FilterSpaces(SortSpaces(
        Splice(spaces, idx, splitSpace(spaces[idx], rot[1], rot[2], rot[3]))))

(* what the filter removed from the list after that placement *)
SpacesDropped(idx, rot) ==
    SmallSpaces(SortSpaces(
        Splice(spaces, idx, splitSpace(spaces[idx], rot[1], rot[2], rot[3]))))

(* a for-of loop that passes over the unit after the one it handled *)
NextUnitSkippingOne(i) == i + 2

(* for (const boxToPlace of boxesToPlace): the position after unit i *)
NextUnit(i) == i + 1

(* one iteration of the for loop that places the unit: first space in list *)
(* order with a feasible rotation, first such rotation                     *)
PlaceUnit ==
    /\ pc = "loop"
    /\ unitIdx <= Len(boxesToPlace)
    /\ LET unit == boxesToPlace[unitIdx]
           fit == FirstFit(unit.boxType)
       IN  /\ fit.idx # 0
           /\ packedBoxes' =
                 Append(packedBoxes, MakePackedBox(unit, spaces[fit.idx], fit.rot))
           /\ spaces' = SpacesAfter(fit.idx, fit.rot)
           /\ discarded' = discarded \o SpacesDropped(fit.idx, fit.rot)
    /\ unitIdx' = NextUnit(unitIdx)
    /\ UNCHANGED <<den, container, boxTypes, pc, boxesToPlace,
                   unpackedCounts, result, earlier, ui>>

(* the counter set to 1 on every miss instead of incremented *)
CountUnpackedNoIncrement(counts, id) ==
    IF \E i \in 1..Len(counts) : counts[i].id = id
    THEN [i \in 1..Len(counts) |->
            IF counts[i].id = id THEN [id |-> id, count |-> 1] ELSE counts[i]]
    ELSE Append(counts, [id |-> id, count |-> 1])

(* unpackedCounts.set(id, (unpackedCounts.get(id) || 0) + 1) *)
CountUnpacked(counts, id) ==
    IF \E i \in 1..Len(counts) : counts[i].id = id
    THEN [i \in 1..Len(counts) |->
            IF counts[i].id = id
            THEN [id |-> id, count |-> counts[i].count + 1]
            ELSE counts[i]]
    ELSE Append(counts, [id |-> id, count |-> 1])

(* a miss that also gives up the space it tried first *)
SkipUnitDroppingSpace ==
    /\ pc = "loop"
    /\ unitIdx <= Len(boxesToPlace)
    /\ LET unit == boxesToPlace[unitIdx]
       IN  /\ FirstFit(unit.boxType).idx = 0
           /\ unpackedCounts' = CountUnpacked(unpackedCounts, unit.boxType.id)
    /\ spaces' = IF spaces = <<>> THEN <<>> ELSE Tail(spaces)
    /\ unitIdx' = NextUnit(unitIdx)
    /\ UNCHANGED <<den, container, boxTypes, pc, boxesToPlace,
                   packedBoxes, result, discarded, earlier, ui>>

(* one iteration of the for loop in which no space and rotation is feasible *)
SkipUnit ==
    /\ pc = "loop"
    /\ unitIdx <= Len(boxesToPlace)
    /\ LET unit == boxesToPlace[unitIdx]
       IN  /\ FirstFit(unit.boxType).idx = 0
           /\ unpackedCounts' = CountUnpacked(unpackedCounts, unit.boxType.id)
    /\ unitIdx' = NextUnit(unitIdx)
    /\ UNCHANGED <<den, container, boxTypes, pc, boxesToPlace, spaces,
                   packedBoxes, result, discarded, earlier, ui>>

(* the unpacked list built from the box types as requested, quantity kept *)
RECURSIVE BuildUnpackedKeepingQuantity(_, _)
BuildUnpackedKeepingQuantity(counts, bts) ==
    IF counts = <<>> THEN <<>>
    ELSE LET id == Head(counts).id
             found == {i \in 1..Len(bts) : bts[i].id = id}
         IN  (IF found = {} THEN <<>> ELSE << bts[CHOOSE i \in found : \A j \in found : i <= j] >>)
             \o BuildUnpackedKeepingQuantity(Tail(counts), bts)

(* the unpacked list: for each counted id, the first box type with that id *)
(* copied with quantity set to the count                                   *)
RECURSIVE BuildUnpacked(_, _)
BuildUnpacked(counts, bts) ==
    IF counts = <<>> THEN <<>>
    ELSE LET id == Head(counts).id
             found == {i \in 1..Len(bts) : bts[i].id = id}
         IN  (IF found = {} THEN <<>>
              ELSE << [bts[Min(found)] EXCEPT !.quantity = Head(counts).count] >>)
             \o BuildUnpacked(Tail(counts), bts)

UsedVolume(packed) ==
    SumSeq([i \in 1..Len(packed) |-> Volume(packed[i].dimensions)])

TotalWeight(packed) ==
    SumSeq([i \in 1..Len(packed) |-> packed[i].boxType.weight])

(* stats; utilizationPercent is held in tenths of a percent *)
Stats(c, units, packed) ==
    [totalBoxes |-> Len(units),
     packedBoxes |-> Len(packed),
     unpackedBoxes |-> Len(units) - Len(packed),
     containerVolume |-> Volume(c),
     usedVolume |-> UsedVolume(packed),
     utilizationPercent |-> UtilizationTenths(UsedVolume(packed), Volume(c)),
     totalWeight |-> TotalWeight(packed)]

(* success only when no unit is left unpacked *)
SuccessWhenAllPacked(packed, units) == Len(packed) = Len(units)

(* success: packedBoxes.length > 0 *)
Success(packed, units) == Len(packed) > 0

(* an unpacked list built by writing each count into the caller's box type *)
BoxTypesWithCountsWritten(counts, bts) ==
    [i \in 1..Len(bts) |->
        IF \E k \in 1..Len(counts) : counts[k].id = bts[i].id
        THEN [bts[i] EXCEPT !.quantity =
                 counts[CHOOSE k \in 1..Len(counts) : counts[k].id = bts[i].id].count]
        ELSE bts[i]]

(* the caller's box type list after the loop that builds the unpacked      *)
(* list: the loop reads it with find and pushes { ...boxType, quantity },  *)
(* a new object each, and assigns to no box type                           *)
BoxTypesAfterBuild(counts, bts) == bts

(* after the loop: build the unpacked list and the statistics, return *)
Finish ==
    /\ pc = "loop"
    /\ unitIdx > Len(boxesToPlace)
    /\ result' = [success |-> Success(packedBoxes, boxesToPlace),
                  boxes |-> packedBoxes,
                  unpacked |-> BuildUnpacked(unpackedCounts, boxTypes),
                  stats |-> Stats(container, boxesToPlace, packedBoxes)]
    /\ boxTypes' = BoxTypesAfterBuild(unpackedCounts, boxTypes)
    /\ pc' = "done"
    /\ UNCHANGED <<den, container, boxesToPlace, unitIdx, spaces,
                   packedBoxes, unpackedCounts, discarded, earlier, ui>>

Next == Start \/ PlaceUnit \/ SkipUnit \/ Finish

Spec == Init /\ [][Next]_vars

(* control moves on: packBoxes has not returned and its position, the      *)
(* pair (pc, unitIdx), changes.  Every step of Next is such a step.        *)
Advances ==
    /\ pc # "done"
    /\ pc' \in {"loop", "done"}
    /\ unitIdx' \in 1..(Len(boxesToPlace) + 2)

(* packBoxes is synchronous code without suspension: once invoked, it is   *)
(* executed step by step until it returns                                  *)
SpecLive == Init /\ [][Next]_vars /\ WF_<<pc, unitIdx>>(Advances)

----------------------------------------------------------------------------
(* Repeated invocation: the caller invokes packBoxes again after it        *)
(* returned, as the visualizer does on every recalculation.  earlier       *)
(* remembers one returned call; between records that a call with other     *)
(* arguments returned after it.                                            *)

(* arguments of the repeated calls: the scenarios, and one box type of a   *)
(* family asked for once or MaxUnits times                                 *)
RepeatInputs ==
    ScenarioInputs \cup
    UNION {{Input(fam.den, fam.container, BoxTypesOf(<<sh>>)) :
               sh \in {t \in Shapes(fam) : t.quantity \in {1, MaxUnits}}} :
           fam \in Families}

SameArguments(call) ==
    call.den = den /\ call.container = container /\ call.boxTypes = boxTypes

Remember ==
    IF earlier.called
    THEN [earlier EXCEPT !.between = @ \/ ~SameArguments(earlier)]
    ELSE [called |-> TRUE, den |-> den, container |-> container,
          boxTypes |-> boxTypes, result |-> result, between |-> FALSE]

(* packBoxes has returned and is invoked again with arguments in *)
Invoke ==
    /\ pc = "done"
    /\ \E in \in RepeatInputs :
          /\ den' = in.den
          /\ container' = in.container
          /\ boxTypes' = in.boxTypes
          /\ Enter(in.container, in.boxTypes)
    /\ result' = NoResult
    /\ earlier' \in {earlier, Remember}
    /\ UNCHANGED ui

InitRepeat ==
    /\ \E in \in RepeatInputs :
          /\ den = in.den
          /\ container = in.container
          /\ boxTypes = in.boxTypes
    /\ pc = "start"
    /\ boxesToPlace = <<>>
    /\ unitIdx = 1
    /\ spaces = <<>>
    /\ packedBoxes = <<>>
    /\ unpackedCounts = <<>>
    /\ result = NoResult
    /\ discarded = <<>>
    /\ earlier = NoCall
    /\ ui = NoVisualizer

NextRepeat == Start \/ PlaceUnit \/ SkipUnit \/ Finish \/ Invoke

SpecRepeat == InitRepeat /\ [][NextRepeat]_vars

(* the caller comes back to every argument again and again: each call of   *)
(* RepeatInputs is entered infinitely often                                *)
Tour ==
    \A in \in RepeatInputs :
        []<>(pc = "loop" /\ unitIdx = 1 /\ SameArguments(in))

(* repeated invocation in which every call runs to its return and every    *)
(* argument is toured: what holds at some point of such a run holds at     *)
(* some point of the call of some argument, and conversely                 *)
SpecTour ==
    InitRepeat /\ [][NextRepeat]_vars /\ WF_<<pc, unitIdx>>(Advances) /\ Tour

----------------------------------------------------------------------------
(* The visualizer's recalculation flow (components/Visualizer3D.tsx).  ui  *)
(* holds the React state boxTypes, isRecalculating and packingResult, the  *)
(* pending setTimeout callbacks with the values their closures captured,   *)
(* and whether a callback is executing.  Event handlers and callbacks run  *)
(* to completion one at a time, and React re-renders after every handler,  *)
(* so a handler sees the state of the render before the event.  clicked    *)
(* and edited are history: the state boxTypes at the last click on         *)
(* Recalculate, and whether a quantity was edited since, before the timer  *)
(* fired.                                                                  *)

(* the props of the visualizer: a container and the initial box types *)
VisualizerInputs == {ScenarioSliver, ScenarioTie}

InitVisualizer ==
    /\ \E in \in VisualizerInputs :
          /\ den = in.den
          /\ container = in.container
          /\ boxTypes = in.boxTypes
          /\ ui = [boxTypes |-> in.boxTypes, isRecalculating |-> FALSE,
                   packingResult |-> NoResult, timers |-> <<>>,
                   running |-> FALSE, clicked |-> <<>>, edited |-> FALSE]
    /\ pc = "done"
    /\ boxesToPlace = <<>>
    /\ unitIdx = 1
    /\ spaces = <<>>
    /\ packedBoxes = <<>>
    /\ unpackedCounts = <<>>
    /\ result = NoResult
    /\ discarded = <<>>
    /\ earlier = NoCall

(* prev.map(bt => bt.id === boxTypeId                                      *)
(*                  ? { ...bt, quantity: Math.max(0, newQuantity) } : bt)  *)
WithQuantity(bts, boxTypeId, newQuantity) ==
    [i \in 1..Len(bts) |->
        IF bts[i].id = boxTypeId
        THEN [bts[i] EXCEPT !.quantity = IF newQuantity > 0 THEN newQuantity ELSE 0]
        ELSE bts[i]]

(* handleQuantityChange, from the minus and plus buttons and the number    *)
(* input of a listed box type; the explored quantities add up to at most   *)
(* MaxUnits.  The editor stays enabled while a recalculation is pending.   *)
QuantityChange ==
    /\ ~ui.running
    /\ \E i \in 1..Len(ui.boxTypes), newQuantity \in (-1)..MaxUnits :
          LET bts == WithQuantity(ui.boxTypes, ui.boxTypes[i].id, newQuantity)
          IN  /\ TotalQuantity(bts) <= MaxUnits
              /\ ui' = [ui EXCEPT !.boxTypes = bts,
                                  !.edited = @ \/ ui.timers # <<>>]
    /\ UNCHANGED <<den, container, boxTypes, pc, boxesToPlace, unitIdx, spaces,
                   packedBoxes, unpackedCounts, result, discarded, earlier>>

(* a Recalculate button that is never disabled *)
RecalculateNeverDisabled == FALSE

(* the Recalculate button: disabled={isRecalculating} *)
RecalculateDisabled == ui.isRecalculating

(* a click on Recalculate: handleRecalculate sets isRecalculating and      *)
(* registers the timer callback, whose closure holds the container and the *)
(* boxTypes of the render the handler belongs to                           *)
Recalculate ==
    /\ ~ui.running
    /\ ~RecalculateDisabled
    /\ ui' = [ui EXCEPT !.isRecalculating = TRUE,
                        !.timers = Append(@, [container |-> container,
                                              boxTypes |-> ui.boxTypes]),
                        !.clicked = ui.boxTypes,
                        !.edited = FALSE]
    /\ UNCHANGED <<den, container, boxTypes, pc, boxesToPlace, unitIdx, spaces,
                   packedBoxes, unpackedCounts, result, discarded, earlier>>

(* a callback that reads the box types of the latest render *)
CallbackBoxTypesLatest(timer) == ui.boxTypes

(* the boxTypes the callback passes to packBoxes: its closure's *)
CallbackBoxTypes(timer) == timer.boxTypes

(* the timer fires: the callback calls packBoxes(container, boxTypes) *)
TimerFires ==
    /\ ~ui.running
    /\ ui.timers # <<>>
    /\ LET timer == Head(ui.timers)
       IN  /\ container' = timer.container
           /\ boxTypes' = CallbackBoxTypes(timer)
           /\ Enter(timer.container, CallbackBoxTypes(timer))
    /\ result' = NoResult
    /\ ui' = [ui EXCEPT !.timers = Tail(@), !.running = TRUE]
    /\ UNCHANGED <<den, earlier>>

(* packBoxes has returned inside the callback: setPackingResult(result),   *)
(* setIsRecalculating(false)                                               *)
Install ==
    /\ ui.running
    /\ pc = "done"
    /\ ui' = [ui EXCEPT !.packingResult = result,
                        !.isRecalculating = FALSE,
                        !.running = FALSE]
    /\ UNCHANGED <<den, container, boxTypes, pc, boxesToPlace, unitIdx, spaces,
                   packedBoxes, unpackedCounts, result, discarded, earlier>>

NextVisualizer ==
    QuantityChange \/ Recalculate \/ TimerFires \/ PlaceUnit \/ SkipUnit
        \/ Finish \/ Install

SpecVisualizer == InitVisualizer /\ [][NextVisualizer]_vars

----------------------------------------------------------------------------
(* Vocabulary of the properties *)

Indices(boxes) == 1..Len(boxes)

(* the half-open regions of two placed boxes share volume: length on x,    *)
(* height on y, width on z                                                 *)
Overlap3D(a, b) ==
    /\ a.position.x < b.position.x + b.dimensions.length
    /\ b.position.x < a.position.x + a.dimensions.length
    /\ a.position.y < b.position.y + b.dimensions.height
    /\ b.position.y < a.position.y + a.dimensions.height
    /\ a.position.z < b.position.z + b.dimensions.width
    /\ b.position.z < a.position.z + a.dimensions.width

PairwiseDisjoint(boxes) ==
    \A i, j \in Indices(boxes) : i < j => ~Overlap3D(boxes[i], boxes[j])

InsideContainer(b) ==
    /\ b.position.x >= 0 /\ b.position.y >= 0 /\ b.position.z >= 0
    /\ b.position.x + b.dimensions.length <= container.length
    /\ b.position.y + b.dimensions.height <= container.height
    /\ b.position.z + b.dimensions.width <= container.width

TopOf(b) == b.position.y + b.dimensions.height

(* the x/z footprints of two placed boxes overlap *)
FootprintsOverlap(a, b) ==
    /\ a.position.x < b.position.x + b.dimensions.length
    /\ b.position.x < a.position.x + a.dimensions.length
    /\ a.position.z < b.position.z + b.dimensions.width
    /\ b.position.z < a.position.z + a.dimensions.width

(* the boxes whose bottom face is within 0.1 of F's top face, over F's     *)
(* footprint                                                               *)
NearTop(boxes, f) ==
    {i \in Indices(boxes) :
        /\ 10 * Abs(boxes[i].position.y - TopOf(boxes[f])) < den
        /\ FootprintsOverlap(boxes[i], boxes[f])}

(* those of them that are not below F's top face *)
RestingOn(boxes, f) ==
    {i \in NearTop(boxes, f) : boxes[i].position.y >= TopOf(boxes[f])}

(* every box above F's top face over F's footprint, at any height *)
Above(boxes, f) ==
    {i \in Indices(boxes) :
        /\ boxes[i].position.y >= TopOf(boxes[f])
        /\ FootprintsOverlap(boxes[i], boxes[f])}

Fragiles(boxes) == {f \in Indices(boxes) : boxes[f].boxType.isFragile}

Done == pc = "done"

(* the box type of the input with the given id *)
SpecOf(id) == boxTypes[CHOOSE i \in 1..Len(boxTypes) : boxTypes[i].id = id]

PlacedOf(boxes, id) ==
    Cardinality({i \in Indices(boxes) : boxes[i].boxType.id = id})

----------------------------------------------------------------------------
(* C1: no two placed boxes overlap in volume, after every placement and in *)
(* the result.                                                             *)
C1_NoOverlap ==
    /\ PairwiseDisjoint(packedBoxes)
    /\ Done => PairwiseDisjoint(result.boxes)

(* a result with a box stacked on another and a box beside another *)
C1_Witness ==
    /\ Done
    /\ Len(result.boxes) >= 3
    /\ \E i \in Indices(result.boxes) : result.boxes[i].position.y > 0
    /\ \E i \in Indices(result.boxes) :
          result.boxes[i].position.y = 0
          /\ (result.boxes[i].position.x > 0 \/ result.boxes[i].position.z > 0)

(* C2: every placed box lies inside the container, length on x, height on  *)
(* y, width on z.                                                          *)
C2_InsideContainer ==
    /\ \A i \in Indices(packedBoxes) : InsideContainer(packedBoxes[i])
    /\ Done => \A i \in Indices(result.boxes) : InsideContainer(result.boxes[i])

(* a result whose boxes reach the far wall on each axis *)
C2_Witness ==
    /\ Done
    /\ \E i \in Indices(result.boxes) :
          result.boxes[i].position.x > 0
          /\ result.boxes[i].position.x + result.boxes[i].dimensions.length
                = container.length
    /\ \E i \in Indices(result.boxes) :
          result.boxes[i].position.y > 0
          /\ TopOf(result.boxes[i]) = container.height
    /\ \E i \in Indices(result.boxes) :
          result.boxes[i].position.z > 0
          /\ result.boxes[i].position.z + result.boxes[i].dimensions.width
                = container.width

(* C3 as stated: for every fragile placed box F, at most 2 placed boxes    *)
(* have their bottom face within 0.1 of F's top face and a footprint       *)
(* overlapping F's, after every placement and in the result.               *)
C3_Original ==
    /\ \A f \in Fragiles(packedBoxes) :
          Cardinality(NearTop(packedBoxes, f)) <= 2
    /\ Done => \A f \in Fragiles(result.boxes) :
                  Cardinality(NearTop(result.boxes, f)) <= 2

(* C3 amended: for every fragile placed box F, at most 2 placed boxes have *)
(* their bottom face at or above F's top face and within 0.1 of it, and a  *)
(* footprint overlapping F's, after every placement and in the result.     *)
C3_AtMostTwoResting ==
    /\ \A f \in Fragiles(packedBoxes) :
          Cardinality(RestingOn(packedBoxes, f)) <= 2
    /\ Done => \A f \in Fragiles(result.boxes) :
                  Cardinality(RestingOn(result.boxes, f)) <= 2

(* a fragile box carries 2 boxes, room is left on its top face, and a      *)
(* later unit went on top of one of the 2 instead                          *)
C3_Witness ==
    \E f \in Fragiles(packedBoxes) :
        /\ Cardinality(RestingOn(packedBoxes, f)) = 2
        /\ \E s \in Range(spaces) :
              /\ s.y = TopOf(packedBoxes[f])
              /\ s.x < packedBoxes[f].position.x + packedBoxes[f].dimensions.length
              /\ s.x + s.length > packedBoxes[f].position.x
              /\ s.z < packedBoxes[f].position.z + packedBoxes[f].dimensions.width
              /\ s.z + s.width > packedBoxes[f].position.z
        /\ \E i \in Above(packedBoxes, f) :
              packedBoxes[i].position.y > TopOf(packedBoxes[f])

(* C4: every requested unit is accounted for exactly once: placed boxes    *)
(* plus the quantities of the unpacked records equal the requested         *)
(* quantities, and the statistics agree.                                   *)
UnpackedQuantity(r) == SumSeq([i \in 1..Len(r.unpacked) |-> r.unpacked[i].quantity])

C4_Accounting ==
    Done =>
        /\ Len(result.boxes) + UnpackedQuantity(result) = TotalQuantity(boxTypes)
        /\ result.stats.packedBoxes + result.stats.unpackedBoxes
              = result.stats.totalBoxes
        /\ result.stats.unpackedBoxes = UnpackedQuantity(result)

(* a result with placed boxes and unplaced units of two box types *)
C4_Witness ==
    /\ Done
    /\ Len(result.boxes) >= 1
    /\ Len(result.unpacked) = 2
    /\ UnpackedQuantity(result) >= 3

(* C6: for every fragile placed box F at most 2 placed boxes lie above F's *)
(* top face over F's footprint, counting the boxes resting on F and the    *)
(* boxes stacked on those.                                                 *)
C6_AtMostTwoAbove ==
    Done => \A f \in Fragiles(result.boxes) :
                Cardinality(Above(result.boxes, f)) <= 2

(* C7: the extents of every placed box are an allowed orientation of its   *)
(* box type: any permutation if it is not fragile, (l, w, h) or (w, l, h)  *)
(* if it is, so a fragile box keeps its height.                            *)
Permutations3(l, w, h) ==
    {<<l, w, h>>, <<l, h, w>>, <<w, l, h>>, <<w, h, l>>, <<h, l, w>>, <<h, w, l>>}

AllowedOrientation(b) ==
    LET t == SpecOf(b.boxType.id)
        d == <<b.dimensions.length, b.dimensions.width, b.dimensions.height>>
    IN  /\ b.boxType = t
        /\ IF t.isFragile
           THEN /\ d \in {<<t.length, t.width, t.height>>,
                          <<t.width, t.length, t.height>>}
                /\ b.dimensions.height = t.height
           ELSE d \in Permutations3(t.length, t.width, t.height)

C7_AllowedOrientations ==
    /\ \A i \in Indices(packedBoxes) : AllowedOrientation(packedBoxes[i])
    /\ Done => \A i \in Indices(result.boxes) : AllowedOrientation(result.boxes[i])

(* a result with a fragile box turned about the vertical axis and a box    *)
(* that is not fragile laid on its side                                    *)
C7_Witness ==
    /\ Done
    /\ \E i \in Indices(result.boxes) :
          /\ result.boxes[i].boxType.isFragile
          /\ result.boxes[i].dimensions.length # result.boxes[i].boxType.length
    /\ \E i \in Indices(result.boxes) :
          /\ ~result.boxes[i].boxType.isFragile
          /\ result.boxes[i].dimensions.height # result.boxes[i].boxType.height

(* C8: the utilization percentage lies between 0 and 100 (0 and 1000       *)
(* tenths) and the used volume never exceeds the container volume.         *)
C8_UtilizationBound ==
    Done =>
        /\ result.stats.utilizationPercent >= 0
        /\ result.stats.utilizationPercent <= 1000
        /\ result.stats.usedVolume <= result.stats.containerVolume

(* a result whose boxes fill the container, in more than one box *)
C8_Witness ==
    /\ Done
    /\ Len(result.boxes) >= 2
    /\ result.stats.usedVolume = result.stats.containerVolume
    /\ result.stats.utilizationPercent = 1000

(* C9: the utilization percentage is usedVolume / containerVolume as a     *)
(* percentage rounded to one decimal, halves rounded up; one 50 x 50 x 50  *)
(* box in a 100 x 100 x 100 container gives 1 packed, 0 unpacked, 12.5.    *)
ExactTenths(usedVolume, containerVolume) ==
    (2000 * usedVolume + containerVolume) \div (2 * containerVolume)

C9_RoundedUtilization ==
    Done =>
        /\ result.stats.usedVolume = UsedVolume(result.boxes)
        /\ result.stats.containerVolume = Volume(container)
        /\ result.stats.utilizationPercent
              = ExactTenths(result.stats.usedVolume, result.stats.containerVolume)
        /\ (den = ScenarioA.den /\ container = ScenarioA.container
            /\ boxTypes = ScenarioA.boxTypes)
           => /\ result.stats.packedBoxes = 1
              /\ result.stats.unpackedBoxes = 0
              /\ result.stats.utilizationPercent = 125

(* C10: the unpacked list has exactly one record for each box type with an *)
(* unplaced unit and none for the others; a record is the box type with    *)
(* quantity set to the number of its unplaced units.                       *)
Unplaced(t) == t.quantity - PlacedOf(result.boxes, t.id)

C10_UnpackedRecords ==
    Done =>
        /\ \A i \in 1..Len(boxTypes) :
              Cardinality({k \in 1..Len(result.unpacked) :
                              result.unpacked[k].id = boxTypes[i].id})
                 = IF Unplaced(boxTypes[i]) > 0 THEN 1 ELSE 0
        /\ \A k \in 1..Len(result.unpacked) :
              /\ \E i \in 1..Len(boxTypes) : boxTypes[i].id = result.unpacked[k].id
              /\ LET t == SpecOf(result.unpacked[k].id)
                 IN  result.unpacked[k] = [t EXCEPT !.quantity = Unplaced(t)]

(* a result in which one box type is placed in full, one in part, and the  *)
(* unplaced units are more than one                                        *)
C10_Witness ==
    /\ Done
    /\ Len(result.unpacked) = 1
    /\ result.unpacked[1].quantity >= 2
    /\ result.unpacked[1].quantity < SpecOf(result.unpacked[1].id).quantity
    /\ \E i \in 1..Len(boxTypes) :
          boxTypes[i].quantity > 0 /\ Unplaced(boxTypes[i]) = 0

(* C5: two invocations with identical container and box type list return   *)
(* identical results, whatever was invoked before or in between.           *)
C5_Deterministic ==
    (Done /\ earlier.called /\ SameArguments(earlier))
        => result = earlier.result

(* the same arguments again, after a call with other arguments, with       *)
(* boxes placed and units left unpacked                                    *)
C5_Witness ==
    /\ Done
    /\ earlier.called
    /\ SameArguments(earlier)
    /\ earlier.between
    /\ Len(result.boxes) >= 2
    /\ Len(result.unpacked) >= 1

----------------------------------------------------------------------------
(* the orientations the specification allows a box type, as extents on     *)
(* (x, z, y)                                                               *)
AllowedOrientations(t) ==
    IF t.isFragile
    THEN {<<t.length, t.width, t.height>>, <<t.width, t.length, t.height>>}
    ELSE Permutations3(t.length, t.width, t.height)

(* some allowed orientation of the box type fits inside the container *)
FitsContainer(t) ==
    \E o \in AllowedOrientations(t) :
        o[1] <= container.length /\ o[2] <= container.width
        /\ o[3] <= container.height

NeverFits == {i \in 1..Len(boxTypes) : ~FitsContainer(boxTypes[i])}

(* C11: a unit none of whose allowed orientations fits inside the          *)
(* container is never placed and is counted as unpacked; when that is so   *)
(* for every unit, the result has no boxes, every unit unpacked,           *)
(* utilization 0 and success false (so for a 20 x 20 x 20 box in a         *)
(* 10 x 10 x 10 container: 0 packed, 1 unpacked).                          *)
C11_TooLargeUnpacked ==
    /\ \A k \in Indices(packedBoxes) : FitsContainer(packedBoxes[k].boxType)
    /\ Done =>
          /\ \A i \in NeverFits :
                /\ PlacedOf(result.boxes, boxTypes[i].id) = 0
                /\ boxTypes[i].quantity > 0 =>
                      \E k \in 1..Len(result.unpacked) :
                          result.unpacked[k] = boxTypes[i]
          /\ NeverFits = 1..Len(boxTypes) =>
                /\ result.boxes = <<>>
                /\ UnpackedQuantity(result) = TotalQuantity(boxTypes)
                /\ result.stats.unpackedBoxes = TotalQuantity(boxTypes)
                /\ result.stats.utilizationPercent = 0
                /\ result.success = FALSE
          /\ (den = ScenarioB.den /\ container = ScenarioB.container
              /\ boxTypes = ScenarioB.boxTypes)
             => /\ result.stats.packedBoxes = 0
                /\ result.stats.unpackedBoxes = 1
                /\ result.stats.utilizationPercent = 0
                /\ result.success = FALSE

(* a result with a box placed, two units too long on every axis unpacked,  *)
(* and a fragile box unpacked that would fit lying down                    *)
C11_Witness ==
    /\ Done
    /\ Len(result.boxes) >= 1
    /\ \E i \in NeverFits :
          /\ boxTypes[i].isFragile
          /\ boxTypes[i].quantity >= 1
          /\ FitsContainer([boxTypes[i] EXCEPT !.isFragile = FALSE])
    /\ \E i \in NeverFits :
          /\ ~boxTypes[i].isFragile
          /\ boxTypes[i].quantity >= 2

(* C12: success is true exactly when the result has at least one placed    *)
(* box: true also when units are unpacked, false for an empty box type     *)
(* list and for quantities that are all zero.                              *)
C12_SuccessIffPlaced ==
    Done =>
        /\ result.success = (Len(result.boxes) > 0)
        /\ TotalQuantity(boxTypes) = 0 => result.success = FALSE

(* a successful result with more units unpacked than placed *)
C12_Witness ==
    /\ Done
    /\ result.success
    /\ Len(result.boxes) >= 1
    /\ UnpackedQuantity(result) > Len(result.boxes)

(* C13: packBoxes leaves its arguments as they were: no step changes the   *)
(* container, the order of the box type list or a field of a box type,     *)
(* also not the step that builds the unpacked records with their own       *)
(* quantity.                                                               *)
C13_InputsUntouched ==
    [][container' = container /\ boxTypes' = boxTypes]_vars

(* a result whose units were attempted in another order than the box type  *)
(* list gives them and whose unpacked record carries a quantity other than *)
(* the requested one                                                       *)
C13_Witness ==
    /\ Done
    /\ boxesToPlace # ExpandBoxTypes(boxTypes)
    /\ \E k \in 1..Len(result.unpacked) :
          result.unpacked[k].quantity # SpecOf(result.unpacked[k].id).quantity

(* the identity of a unit, as in the id of its PackedBox *)
UnitId(unit) == <<unit.boxType.id, unit.index>>

CountOf(counts, id) ==
    IF \E k \in 1..Len(counts) : counts[k].id = id
    THEN counts[CHOOSE k \in 1..Len(counts) : counts[k].id = id].count
    ELSE 0

CountedIds(counts) == {counts[k].id : k \in 1..Len(counts)}

(* a step of the loop attempts the unit the loop is at, and no other: the  *)
(* unit becomes the last placed box or adds one to the unpacked count of   *)
(* its box type, and the loop moves to the next unit                       *)
AttemptsOneUnit ==
    (pc = "loop" /\ pc' = "loop") =>
        /\ unitIdx <= Len(boxesToPlace)
        /\ unitIdx' = unitIdx + 1
        /\ boxesToPlace' = boxesToPlace
        /\ LET unit == boxesToPlace[unitIdx]
           IN  \/ /\ Len(packedBoxes') = Len(packedBoxes) + 1
                  /\ SubSeq(packedBoxes', 1, Len(packedBoxes)) = packedBoxes
                  /\ packedBoxes'[Len(packedBoxes')].id = UnitId(unit)
                  /\ unpackedCounts' = unpackedCounts
               \/ /\ packedBoxes' = packedBoxes
                  /\ CountOf(unpackedCounts', unit.boxType.id)
                        = CountOf(unpackedCounts, unit.boxType.id) + 1
                  /\ \A id \in CountedIds(unpackedCounts') \ {unit.boxType.id} :
                        CountOf(unpackedCounts', id) = CountOf(unpackedCounts, id)

(* the result is returned after the last unit, with the boxes placed *)
ReturnsAfterLastUnit ==
    (pc = "loop" /\ pc' = "done") =>
        /\ unitIdx = Len(boxesToPlace) + 1
        /\ result'.boxes = packedBoxes
        /\ Len(result'.boxes) + UnpackedQuantity(result') = Len(boxesToPlace)

(* C14: packBoxes runs to completion and returns a result; every expanded  *)
(* unit is attempted exactly once, in order, and is then placed or counted *)
(* as unpacked; a unit that fails is not retried and does not stop the     *)
(* units after it.                                                         *)
C14_RunsToCompletion ==
    /\ <>Done
    /\ [](pc \in {"start", "loop", "done"})
    /\ [](pc = "loop" => unitIdx \in 1..(Len(boxesToPlace) + 1))
    /\ [][AttemptsOneUnit /\ ReturnsAfterLastUnit]_vars

(* a result in which a unit is unpacked and a unit attempted after it is   *)
(* placed                                                                  *)
C14_Witness ==
    /\ Done
    /\ \E i, j \in 1..Len(boxesToPlace) :
          /\ i < j
          /\ \A k \in Indices(result.boxes) :
                result.boxes[k].id # UnitId(boxesToPlace[i])
          /\ \E k \in Indices(result.boxes) :
                result.boxes[k].id = UnitId(boxesToPlace[j])

----------------------------------------------------------------------------
(* the orientations of a box type in the order the specification           *)
(* enumerates them                                                         *)
EnumeratedOrientations(t) ==
    LET l == t.length
        w == t.width
        h == t.height
    IN  IF t.isFragile
        THEN << <<l, w, h>>, <<w, l, h>> >>
        ELSE << <<l, w, h>>, <<l, h, w>>, <<w, l, h>>,
                <<w, h, l>>, <<h, l, w>>, <<h, w, l>> >>

(* the rule of the fragility check as the specification words it: some     *)
(* placed fragile box F has its top face within 0.1 of the candidate's     *)
(* bottom face, the candidate's footprint overlaps F's, and at least 2     *)
(* placed boxes have their bottom face within 0.1 of F's top face and a    *)
(* footprint overlapping F's                                               *)
FragilityRejects(boxes, p, e) ==
    \E f \in Fragiles(boxes) :
        /\ 10 * Abs(p.y - TopOf(boxes[f])) < den
        /\ p.x < boxes[f].position.x + boxes[f].dimensions.length
        /\ boxes[f].position.x < p.x + e[1]
        /\ p.z < boxes[f].position.z + boxes[f].dimensions.width
        /\ boxes[f].position.z < p.z + e[2]
        /\ Cardinality(NearTop(boxes, f)) >= 2

OriginOf(s) == [x |-> s.x, y |-> s.y, z |-> s.z]

(* orientation r of box type t fits space i of the current list and passes *)
(* the fragility rule at its origin                                        *)
CandidateFeasible(t, i, r) ==
    LET o == EnumeratedOrientations(t)[r]
    IN  /\ o[1] <= spaces[i].length
        /\ o[2] <= spaces[i].width
        /\ o[3] <= spaces[i].height
        /\ ~FragilityRejects(packedBoxes, OriginOf(spaces[i]), o)

Candidates(t) ==
    {c \in (1..Len(spaces)) \X (1..Len(EnumeratedOrientations(t))) :
        CandidateFeasible(t, c[1], c[2])}

(* c is the first of the candidates cs: first space, then first            *)
(* orientation                                                             *)
FirstCandidate(c, cs) ==
    /\ c \in cs
    /\ \A d \in cs : c[1] < d[1] \/ (c[1] = d[1] /\ c[2] <= d[2])

CurrentUnit == boxesToPlace[unitIdx]

(* C15: the search is first-fit over (space, orientation) in that nested   *)
(* order: a placed unit sits at the origin of the first space of the       *)
(* current list that has a feasible orientation, in the first such         *)
(* orientation of the enumeration order; a unit is counted as unpacked     *)
(* only if no space and orientation is feasible.                           *)
C15_FirstFit ==
    [][(pc = "loop" /\ pc' = "loop") =>
          LET t == CurrentUnit.boxType
              cs == Candidates(t)
          IN  IF Len(packedBoxes') > Len(packedBoxes)
              THEN \E c \in cs :
                      /\ FirstCandidate(c, cs)
                      /\ packedBoxes'[Len(packedBoxes')].position
                            = OriginOf(spaces[c[1]])
                      /\ packedBoxes'[Len(packedBoxes')].dimensions
                            = [length |-> EnumeratedOrientations(t)[c[2]][1],
                               width |-> EnumeratedOrientations(t)[c[2]][2],
                               height |-> EnumeratedOrientations(t)[c[2]][3]]
              ELSE cs = {}]_vars

(* a unit is about to be placed whose first candidate is neither in the    *)
(* first space nor in the first orientation, while a later space takes it  *)
(* in an earlier orientation                                               *)
C15_Witness ==
    /\ pc = "loop"
    /\ unitIdx <= Len(boxesToPlace)
    /\ Len(packedBoxes) >= 1
    /\ \E c \in Candidates(CurrentUnit.boxType) :
          /\ FirstCandidate(c, Candidates(CurrentUnit.boxType))
          /\ c[1] > 1
          /\ c[2] > 1
          /\ \E d \in Candidates(CurrentUnit.boxType) : d[2] < c[2]

(* the position of a unit in the expansion of the box type list: the       *)
(* index of its box type, then its instance index                          *)
SpecIndex(id) == CHOOSE i \in 1..Len(boxTypes) : boxTypes[i].id = id

ExpandedBefore(a, b) ==
    \/ SpecIndex(a.boxType.id) < SpecIndex(b.boxType.id)
    \/ /\ SpecIndex(a.boxType.id) = SpecIndex(b.boxType.id)
       /\ a.index < b.index

NonIncreasingVolume(boxes) ==
    \A i, j \in Indices(boxes) :
        i < j => Volume(boxes[i].boxType) >= Volume(boxes[j].boxType)

(* C16: the units are attempted in non-increasing order of the volume of   *)
(* their unrotated box type, units of equal volume in expansion order      *)
(* (box type order, then instance index); the placed boxes are listed in   *)
(* non-increasing box type volume.                                         *)
C16_DecreasingVolume ==
    /\ pc # "start" =>
          /\ Len(boxesToPlace) = TotalQuantity(boxTypes)
          /\ \A i \in 1..Len(boxTypes) : \A n \in 0..(boxTypes[i].quantity - 1) :
                \E k \in 1..Len(boxesToPlace) :
                    boxesToPlace[k] = [boxType |-> boxTypes[i], index |-> n]
          /\ \A i, j \in 1..Len(boxesToPlace) :
                i < j =>
                    \/ Volume(boxesToPlace[i].boxType)
                          > Volume(boxesToPlace[j].boxType)
                    \/ /\ Volume(boxesToPlace[i].boxType)
                             = Volume(boxesToPlace[j].boxType)
                       /\ ExpandedBefore(boxesToPlace[i], boxesToPlace[j])
    /\ NonIncreasingVolume(packedBoxes)
    /\ Done => NonIncreasingVolume(result.boxes)

(* a result for a box type list given in increasing volume, with units of  *)
(* equal volume from two box types, a larger unit unpacked and a smaller   *)
(* one placed                                                              *)
C16_Witness ==
    /\ Done
    /\ Len(result.boxes) >= 1
    /\ Len(result.unpacked) >= 1
    /\ \E i, j \in 1..Len(boxTypes) :
          /\ i < j
          /\ boxTypes[i].quantity > 0
          /\ boxTypes[j].quantity > 0
          /\ Volume(boxTypes[i]) < Volume(boxTypes[j])
          /\ PlacedOf(result.boxes, boxTypes[i].id) > 0
    /\ \E i, j \in 1..Len(boxesToPlace) :
          /\ i < j
          /\ Volume(boxesToPlace[i].boxType) = Volume(boxesToPlace[j].boxType)
          /\ boxesToPlace[i].boxType.id # boxesToPlace[j].boxType.id

----------------------------------------------------------------------------
(* the half-open region of a space and of a placed box: length on x,       *)
(* height on y, width on z                                                 *)
RegionOfSpace(s) ==
    [x0 |-> s.x, x1 |-> s.x + s.length, y0 |-> s.y, y1 |-> s.y + s.height,
     z0 |-> s.z, z1 |-> s.z + s.width]

RegionOfBox(b) ==
    [x0 |-> b.position.x, x1 |-> b.position.x + b.dimensions.length,
     y0 |-> b.position.y, y1 |-> b.position.y + b.dimensions.height,
     z0 |-> b.position.z, z1 |-> b.position.z + b.dimensions.width]

RegionsOverlap(a, b) ==
    /\ a.x0 < b.x1 /\ b.x0 < a.x1
    /\ a.y0 < b.y1 /\ b.y0 < a.y1
    /\ a.z0 < b.z1 /\ b.z0 < a.z1

RegionVolume(r) == (r.x1 - r.x0) * (r.y1 - r.y0) * (r.z1 - r.z0)

RegionInContainer(r) ==
    /\ r.x0 >= 0 /\ r.y0 >= 0 /\ r.z0 >= 0
    /\ r.x0 < r.x1 /\ r.y0 < r.y1 /\ r.z0 < r.z1
    /\ r.x1 <= container.length /\ r.y1 <= container.height
    /\ r.z1 <= container.width

RegionsDisjoint(rs) ==
    \A i, j \in 1..Len(rs) : i < j => ~RegionsOverlap(rs[i], rs[j])

SpaceRegions(ss) == [i \in 1..Len(ss) |-> RegionOfSpace(ss[i])]

BoxRegions(bs) == [i \in 1..Len(bs) |-> RegionOfBox(bs[i])]

(* two spaces of the active list overlap in volume *)
SpacesOverlap == ~RegionsDisjoint(SpaceRegions(spaces))

(* C17 as stated: the free-space list comes to contain overlapping         *)
(* regions: there is an input and a point during its packing at which two  *)
(* spaces of the active list overlap in volume.  Over runs that tour every *)
(* input this is: at some point of the run two spaces overlap.             *)
C17_Original == <>SpacesOverlap

(* C17 amended: the free-space list never contains overlapping regions: at *)
(* every point during packing the spaces of the active list are pairwise   *)
(* disjoint in volume, and disjoint from every placed box.                 *)
C17_SpacesDisjoint ==
    /\ ~SpacesOverlap
    /\ RegionsDisjoint(SpaceRegions(spaces) \o BoxRegions(packedBoxes))

(* spaces left by repeated splits: after three placements, four spaces,    *)
(* one of them a residual of a residual on each horizontal axis            *)
C17_Witness ==
    /\ Len(packedBoxes) >= 3
    /\ Len(spaces) >= 4
    /\ \E i \in 1..Len(spaces) : spaces[i].x > 0 /\ spaces[i].z > 0

(* C18: the placed boxes, the active spaces and the spaces discarded as    *)
(* too small tile the container: they lie inside it, no two of them        *)
(* overlap, and their volumes add up to the container volume, after any    *)
(* sequence of placements.                                                 *)
C18_Tiling ==
    pc # "start" =>
        LET pieces == BoxRegions(packedBoxes) \o SpaceRegions(spaces)
                        \o SpaceRegions(discarded)
        IN  /\ \A i \in 1..Len(pieces) : RegionInContainer(pieces[i])
            /\ RegionsDisjoint(pieces)
            /\ SumSeq([i \in 1..Len(pieces) |-> RegionVolume(pieces[i])])
                  = Volume(container)

(* boxes placed, spaces left and spaces discarded as too small *)
C18_Witness ==
    /\ Len(packedBoxes) >= 2
    /\ Len(spaces) >= 1
    /\ Len(discarded) >= 2

----------------------------------------------------------------------------
InLoop == pc = "loop" /\ unitIdx <= Len(boxesToPlace)

ExtentsOf(o) == [length |-> o[1], width |-> o[2], height |-> o[3]]

(* what checkFragilityConstraint answers for the current unit at the       *)
(* origin of space i with the extents o                                    *)
CheckAt(i, o) ==
    checkFragilityConstraint(packedBoxes, CurrentUnit.boxType,
                             OriginOf(spaces[i]), ExtentsOf(o))

(* C19: checkFragilityConstraint rejects a candidate exactly when some     *)
(* placed fragile box F has its top face within 0.1 of the candidate's     *)
(* bottom face, a footprint overlapping the candidate's, and at least 2    *)
(* placed boxes with their bottom face within 0.1 of F's top face and a    *)
(* footprint overlapping F's; otherwise it accepts.  Checked for the       *)
(* current unit at the origin of every space with every permutation of     *)
(* its extents.                                                            *)
C19_RejectsExactly ==
    InLoop =>
        \A i \in 1..Len(spaces) :
            \A o \in Permutations3(CurrentUnit.boxType.length,
                                    CurrentUnit.boxType.width,
                                    CurrentUnit.boxType.height) :
                CheckAt(i, o)
                    = ~FragilityRejects(packedBoxes, OriginOf(spaces[i]), o)

(* a state with a candidate the rule rejects on a fragile box that         *)
(* carries 2 boxes, and a candidate it accepts at the same height beside   *)
(* that box                                                                *)
C19_Witness ==
    /\ InLoop
    /\ \E f \in Fragiles(packedBoxes) :
          /\ Cardinality(NearTop(packedBoxes, f)) >= 2
          /\ \E i \in 1..Len(spaces) :
                \E o \in AllowedOrientations(CurrentUnit.boxType) :
                    /\ ~CheckAt(i, o)
                    /\ spaces[i].y = TopOf(packedBoxes[f])
          /\ \E i \in 1..Len(spaces) :
                \E o \in AllowedOrientations(CurrentUnit.boxType) :
                    /\ CheckAt(i, o)
                    /\ spaces[i].y = TopOf(packedBoxes[f])
                    /\ ~FootprintOverlap(OriginOf(spaces[i]), ExtentsOf(o),
                                         packedBoxes[f])

(* the candidates of the current unit: a space and an allowed orientation  *)
(* that fits it                                                            *)
FittingCandidates ==
    {c \in (1..Len(spaces)) \X AllowedOrientations(CurrentUnit.boxType) :
        /\ c[2][1] <= spaces[c[1]].length
        /\ c[2][2] <= spaces[c[1]].width
        /\ c[2][3] <= spaces[c[1]].height}

(* the candidate's bottom face lies on the container floor *)
OnFloor(c) == spaces[c[1]].y = 0

(* the non-fragile placed boxes on whose top face the candidate's bottom   *)
(* face lies                                                               *)
NonFragileUnder(c) ==
    {n \in Indices(packedBoxes) :
        /\ ~packedBoxes[n].boxType.isFragile
        /\ TopOf(packedBoxes[n]) = spaces[c[1]].y
        /\ FootprintOverlap(OriginOf(spaces[c[1]]), ExtentsOf(c[2]),
                            packedBoxes[n])}

NoFragileSpec == \A i \in 1..Len(boxTypes) : ~boxTypes[i].isFragile

(* no placed box is thinner than 0.1 *)
NoThinBox ==
    \A k \in Indices(packedBoxes) : 10 * packedBoxes[k].dimensions.height >= den

(* C20 as stated: a candidate whose bottom face rests on the container     *)
(* floor or on the top face of a non-fragile placed box is never rejected  *)
(* by the fragility check; with no fragile box type in the input the check *)
(* rejects no candidate.                                                   *)
C20_Original ==
    InLoop =>
        \A c \in FittingCandidates :
            (OnFloor(c) \/ NonFragileUnder(c) # {} \/ NoFragileSpec)
                => CheckAt(c[1], c[2])

(* C20 amended: while no placed box is thinner than 0.1, a candidate whose *)
(* bottom face rests on the container floor or on the top face of a        *)
(* non-fragile placed box is never rejected by the fragility check,        *)
(* however many boxes rest there; with no fragile box type in the input    *)
(* the check rejects no candidate, whatever the heights.                   *)
C20_NoLimitOffFragile ==
    InLoop =>
        \A c \in FittingCandidates :
            /\ (NoThinBox /\ (OnFloor(c) \/ NonFragileUnder(c) # {}))
                  => CheckAt(c[1], c[2])
            /\ NoFragileSpec => CheckAt(c[1], c[2])

(* a candidate accepted on a non-fragile box on which 2 boxes rest already *)
C20_Witness ==
    /\ InLoop
    /\ NoThinBox
    /\ \E c \in FittingCandidates :
          /\ CheckAt(c[1], c[2])
          /\ \E n \in NonFragileUnder(c) :
                Cardinality(RestingOn(packedBoxes, n)) >= 2

----------------------------------------------------------------------------
(* C21: when no space and orientation is feasible for the unit the loop is *)
(* at, the step leaves the space list (contents and order) and the list of *)
(* placed boxes exactly as they were; only the unpacked count of the       *)
(* unit's box type id increases, by 1, and the other counts stay.          *)
C21_MissLeavesLists ==
    [][(InLoop /\ Candidates(CurrentUnit.boxType) = {}) =>
          /\ spaces' = spaces
          /\ packedBoxes' = packedBoxes
          /\ CountOf(unpackedCounts', CurrentUnit.boxType.id)
                = CountOf(unpackedCounts, CurrentUnit.boxType.id) + 1
          /\ \A id \in (CountedIds(unpackedCounts') \cup CountedIds(unpackedCounts))
                        \ {CurrentUnit.boxType.id} :
                CountOf(unpackedCounts', id) = CountOf(unpackedCounts, id)]_vars

(* units of two box types have missed, one of them twice, with boxes       *)
(* placed and several spaces left                                          *)
C21_Witness ==
    /\ Len(unpackedCounts) = 2
    /\ \E k \in 1..Len(unpackedCounts) : unpackedCounts[k].count >= 2
    /\ Len(packedBoxes) >= 1
    /\ Len(spaces) >= 2

----------------------------------------------------------------------------
(* the list is in ascending order of (y, then x, then z) of the origins *)
SortedByOrigin(ss) ==
    \A i, j \in 1..Len(ss) :
        i < j =>
            \/ ss[i].y < ss[j].y
            \/ ss[i].y = ss[j].y /\ ss[i].x < ss[j].x
            \/ ss[i].y = ss[j].y /\ ss[i].x = ss[j].x /\ ss[i].z <= ss[j].z

(* length, width or height is at most 1 *)
TooSmall(s) == s.length <= den \/ s.width <= den \/ s.height <= den

(* C22: after every successful placement the active space list is sorted   *)
(* ascending by (y, then x, then z) of the origins and holds no space      *)
(* whose length, width or height is <= 1; a space discarded this way is    *)
(* never in the list again, nor is any part of its region; before the      *)
(* first placement the list is the container space, whatever its extents.  *)
C22_SortedAndFiltered ==
    /\ (pc # "start" /\ Len(packedBoxes) >= 1) =>
          /\ SortedByOrigin(spaces)
          /\ \A i \in 1..Len(spaces) : ~TooSmall(spaces[i])
    /\ \A k \in 1..Len(discarded) :
          /\ TooSmall(discarded[k])
          /\ \A i \in 1..Len(spaces) :
                /\ spaces[i] # discarded[k]
                /\ ~RegionsOverlap(RegionOfSpace(spaces[i]),
                                   RegionOfSpace(discarded[k]))
    /\ (pc # "start" /\ Len(packedBoxes) = 0) =>
          spaces = << [x |-> 0, y |-> 0, z |-> 0, length |-> container.length,
                       width |-> container.width, height |-> container.height] >>

(* after two placements: a space discarded, three spaces left at two       *)
(* heights, two of them at the same height, and a residual of the last     *)
(* placement ahead of an older space                                       *)
C22_Witness ==
    /\ Len(packedBoxes) >= 2
    /\ Len(spaces) >= 3
    /\ Len(discarded) >= 1
    /\ \E i, j \in 1..Len(spaces) : i < j /\ spaces[i].y < spaces[j].y
    /\ \E i, j \in 1..Len(spaces) : i < j /\ spaces[i].y = spaces[j].y
    /\ spaces[1].x = packedBoxes[Len(packedBoxes)].position.x
                       + packedBoxes[Len(packedBoxes)].dimensions.length

(* a box placed in a container space that is itself no longer than 1 *)
C22_ThinContainer ==
    /\ TooSmall(InitialSpaces(container)[1])
    /\ Len(packedBoxes) >= 1
    /\ Len(discarded) >= 1

----------------------------------------------------------------------------
(* the residuals of a space S consumed by a box with extents (bl, bw, bh)  *)
(* at S's origin, as the specification lists them                          *)
RightOfBox(S, bl, bw, bh) ==
    [x |-> S.x + bl, y |-> S.y, z |-> S.z,
     length |-> S.length - bl, width |-> S.width, height |-> S.height]

FrontOfBox(S, bl, bw, bh) ==
    [x |-> S.x, y |-> S.y, z |-> S.z + bw,
     length |-> bl, width |-> S.width - bw, height |-> S.height]

AboveBox(S, bl, bw, bh) ==
    [x |-> S.x, y |-> S.y + bh, z |-> S.z,
     length |-> bl, width |-> bw, height |-> S.height - bh]

Residuals(S, bl, bw, bh) ==
    (IF S.length - bl > 0 THEN <<RightOfBox(S, bl, bw, bh)>> ELSE <<>>)
    \o (IF S.width - bw > 0 THEN <<FrontOfBox(S, bl, bw, bh)>> ELSE <<>>)
    \o (IF S.height - bh > 0 THEN <<AboveBox(S, bl, bw, bh)>> ELSE <<>>)

(* splitSpace returns the listed residuals, in the listed order, for the   *)
(* current unit in every space and orientation it fits                     *)
SplitAsListed ==
    InLoop =>
        \A c \in FittingCandidates :
            splitSpace(spaces[c[1]], c[2][1], c[2][2], c[2][3])
                = Residuals(spaces[c[1]], c[2][1], c[2][2], c[2][3])

(* a placement removes the consumed space, the one at whose origin the new *)
(* box sits, and puts its residuals in the list; what the filter drops of  *)
(* the list is recorded as discarded                                       *)
ConsumedReplaced ==
    Len(packedBoxes') > Len(packedBoxes) =>
        LET b == packedBoxes'[Len(packedBoxes')]
            S == CHOOSE s \in Range(spaces) : OriginOf(s) = b.position
            R == Residuals(S, b.dimensions.length, b.dimensions.width,
                           b.dimensions.height)
            dropped == SubSeq(discarded', Len(discarded) + 1, Len(discarded'))
        IN  /\ \E s \in Range(spaces) : OriginOf(s) = b.position
            /\ S \notin Range(spaces')
            /\ Range(spaces') \cup Range(dropped)
                  = (Range(spaces) \ {S}) \cup Range(R)
            /\ Len(spaces') + Len(dropped) = Len(spaces) - 1 + Len(R)

(* C23: splitSpace(S, bl, bw, bh) returns, in this order and each only if  *)
(* its remaining extent is > 0, the space right of the box, the space in   *)
(* front of it and the space above it, with the listed origins and         *)
(* extents; the consumed space S is removed from the list and replaced by  *)
(* these residuals.                                                        *)
C23_SplitResiduals ==
    /\ []SplitAsListed
    /\ [][ConsumedReplaced]_vars

(* after a placement, the unit the loop is at goes into a space that is    *)
(* not the first of the list and fills its length: no space right of the   *)
(* box, a space in front of it and a space above it                        *)
C23_Witness ==
    /\ InLoop
    /\ Len(packedBoxes) >= 1
    /\ LET fit == FirstFit(CurrentUnit.boxType)
       IN  /\ fit.idx > 1
           /\ fit.rot[1] = spaces[fit.idx].length
           /\ fit.rot[2] < spaces[fit.idx].width
           /\ fit.rot[3] < spaces[fit.idx].height

----------------------------------------------------------------------------
(* rotation descriptors; y counts quarter turns about the vertical axis *)
IdentityRotation == [x |-> 0, y |-> 0, z |-> 0]

QuarterTurn == [x |-> 0, y |-> 1, z |-> 0]

PlacedExtents(b) ==
    <<b.dimensions.length, b.dimensions.width, b.dimensions.height>>

(* the extents of the box are its box type's (length, width, height) *)
InSpecOrder(b) ==
    PlacedExtents(b) = <<b.boxType.length, b.boxType.width, b.boxType.height>>

(* length and width are exchanged, the height is the box type's *)
LengthWidthSwapped(b) ==
    PlacedExtents(b) = <<b.boxType.width, b.boxType.length, b.boxType.height>>

RotationAsStated(b) ==
    /\ InSpecOrder(b) => b.rotation = IdentityRotation
    /\ (LengthWidthSwapped(b) /\ ~InSpecOrder(b)) => b.rotation = QuarterTurn
    /\ (~InSpecOrder(b) /\ ~LengthWidthSwapped(b)) => b.rotation = IdentityRotation
    /\ (b.boxType.length = b.boxType.width /\ LengthWidthSwapped(b))
          => b.rotation = IdentityRotation

(* C24: the rotation descriptor of a placed box is identity if its extents *)
(* are the box type's (length, width, height) in order, a quarter turn     *)
(* about the vertical axis if length and width are swapped with the height *)
(* kept, and identity for every other permutation; for a box type whose    *)
(* length equals its width the swapped orientation is reported as          *)
(* identity.                                                               *)
C24_RotationDescriptor ==
    /\ \A i \in Indices(packedBoxes) : RotationAsStated(packedBoxes[i])
    /\ Done => \A i \in Indices(result.boxes) : RotationAsStated(result.boxes[i])

(* a result with a box turned a quarter, a box laid on its side with the   *)
(* identity descriptor, and a box of a type as long as wide                *)
C24_Witness ==
    /\ Done
    /\ \E i \in Indices(result.boxes) : result.boxes[i].rotation = QuarterTurn
    /\ \E i \in Indices(result.boxes) :
          /\ result.boxes[i].dimensions.height # result.boxes[i].boxType.height
          /\ result.boxes[i].rotation = IdentityRotation
    /\ \E i \in Indices(result.boxes) :
          /\ result.boxes[i].boxType.length = result.boxes[i].boxType.width
          /\ LengthWidthSwapped(result.boxes[i])

----------------------------------------------------------------------------
(* packBoxes was called with the arguments of Scenario C *)
IsScenarioC == SameArguments(ScenarioC)

(* 2 boxes rest directly atop the first placed box, and the fragility rule *)
(* rejects the current unit at that height over that footprint             *)
ColumnFull ==
    /\ InLoop
    /\ Len(packedBoxes) >= 3
    /\ packedBoxes[1].boxType.isFragile
    /\ Cardinality(RestingOn(packedBoxes, 1)) = 2
    /\ \E c \in FittingCandidates :
          /\ spaces[c[1]].y = TopOf(packedBoxes[1])
          /\ FootprintOverlap(OriginOf(spaces[c[1]]), ExtentsOf(c[2]),
                              packedBoxes[1])
          /\ ~CheckAt(c[1], c[2])

(* C25 as stated: in Scenario C the units are stacked in a column until 2  *)
(* boxes rest directly atop the first fragile box, and the fragility rule  *)
(* then rejects the next candidate at that footprint and height (the       *)
(* rejected unit going elsewhere or being reported unpacked).              *)
C25_Original == IsScenarioC => <>ColumnFull

(* the k-th placed box of Scenario C: on the floor against the wall x = 0, *)
(* the boxes side by side along z, unrotated                               *)
InRowOnFloor(b, k) ==
    /\ b.position = [x |-> 0, y |-> 0, z |-> 10 * (k - 1)]
    /\ b.dimensions = [length |-> 10, width |-> 10, height |-> 5]

(* C25 amended: in Scenario C (container (100,100,10), one fragile box     *)
(* type (10,10,5), quantity 5) no unit is stacked: the units are placed on *)
(* the floor side by side, the k-th at (0, 0, 10(k-1)), because the sorted *)
(* list offers a floor space before the space atop a box; no box ever      *)
(* rests atop another, the fragility rule rejects no candidate, and the    *)
(* result has 5 boxes packed and none unpacked.                            *)
C25_ScenarioCOnFloor ==
    IsScenarioC =>
        /\ \A k \in Indices(packedBoxes) : InRowOnFloor(packedBoxes[k], k)
        /\ \A f \in Indices(packedBoxes) : Above(packedBoxes, f) = {}
        /\ InLoop => \A c \in FittingCandidates : CheckAt(c[1], c[2])
        /\ unpackedCounts = <<>>
        /\ Done =>
              /\ Len(result.boxes) = 5
              /\ result.boxes = packedBoxes
              /\ result.unpacked = <<>>
              /\ result.stats.packedBoxes = 5
              /\ result.stats.unpackedBoxes = 0

(* the result of Scenario C, with the space atop the first box still free *)
C25_Witness ==
    /\ IsScenarioC
    /\ Done
    /\ Len(result.boxes) = 5
    /\ \E i \in 1..Len(spaces) :
          /\ spaces[i].y = TopOf(result.boxes[1])
          /\ spaces[i].x = result.boxes[1].position.x
          /\ spaces[i].z = result.boxes[1].position.z

----------------------------------------------------------------------------
(* the x/z footprints of a space and a placed box overlap *)
SpaceOverBox(s, b) ==
    /\ s.x < b.position.x + b.dimensions.length
    /\ b.position.x < s.x + s.length
    /\ s.z < b.position.z + b.dimensions.width
    /\ b.position.z < s.z + s.width

(* C26: every active space reaches the container ceiling: at every point   *)
(* during packing each space of the list has y + height =                  *)
(* container.height; so no placed box lies above a free space, and no box  *)
(* is placed underneath a box placed before it.                            *)
C26_SpacesReachCeiling ==
    pc # "start" =>
        /\ \A i \in 1..Len(spaces) :
              spaces[i].y + spaces[i].height = container.height
        /\ \A i \in 1..Len(spaces) : \A k \in Indices(packedBoxes) :
              SpaceOverBox(spaces[i], packedBoxes[k])
                 => TopOf(packedBoxes[k]) <= spaces[i].y
        /\ \A j, k \in Indices(packedBoxes) :
              (j < k /\ FootprintsOverlap(packedBoxes[j], packedBoxes[k]))
                 => TopOf(packedBoxes[j]) <= packedBoxes[k].position.y

(* boxes on the floor and a box on a box, a space on the floor and spaces  *)
(* above boxes, one of them above a box that stands on a box               *)
C26_Witness ==
    /\ Len(packedBoxes) >= 2
    /\ \E i \in 1..Len(spaces) : spaces[i].y = 0
    /\ \E i \in 1..Len(spaces) : \E k \in Indices(packedBoxes) :
          /\ packedBoxes[k].position.y > 0
          /\ SpaceOverBox(spaces[i], packedBoxes[k])
          /\ spaces[i].y = TopOf(packedBoxes[k])

----------------------------------------------------------------------------
(* the x/z footprint of a lies inside the footprint of b *)
FootprintInside(a, b) ==
    /\ b.position.x <= a.position.x
    /\ a.position.x + a.dimensions.length <= b.position.x + b.dimensions.length
    /\ b.position.z <= a.position.z
    /\ a.position.z + a.dimensions.width <= b.position.z + b.dimensions.width

(* the boxes on whose top face box k stands: top face at k's bottom face,  *)
(* footprints overlapping                                                  *)
Supporters(boxes, k) ==
    {j \in Indices(boxes) \ {k} :
        /\ TopOf(boxes[j]) = boxes[k].position.y
        /\ FootprintsOverlap(boxes[j], boxes[k])}

FullySupported(boxes, k) ==
    \/ boxes[k].position.y = 0
    \/ /\ boxes[k].position.y > 0
       /\ \E j \in 1..(k - 1) :
             /\ Supporters(boxes, k) = {j}
             /\ FootprintInside(boxes[k], boxes[j])

(* C27: every placed box is fully supported: a box with position.y > 0     *)
(* rests on exactly one box placed before it, whose top face is at its     *)
(* bottom face and whose footprint contains its footprint (no overhang, no *)
(* bridging of two boxes); a box with position.y = 0 rests on the floor.   *)
C27_FullySupported ==
    /\ \A k \in Indices(packedBoxes) : FullySupported(packedBoxes, k)
    /\ Done => \A k \in Indices(result.boxes) : FullySupported(result.boxes, k)

(* a box standing on a box that stands on a box, and a box on a larger box *)
(* while another box ends at the height of the larger one                  *)
C27_Witness ==
    /\ \E k, j, i \in Indices(packedBoxes) :
          /\ Supporters(packedBoxes, k) = {j}
          /\ Supporters(packedBoxes, j) = {i}
    /\ \E k, j \in Indices(packedBoxes) :
          /\ Supporters(packedBoxes, k) = {j}
          /\ ~FootprintInside(packedBoxes[j], packedBoxes[k])
          /\ \E i \in Indices(packedBoxes) \ {j} :
                TopOf(packedBoxes[i]) = TopOf(packedBoxes[j])

----------------------------------------------------------------------------
(* C28: at every point during packing, each space of the active list lies  *)
(* inside the container and overlaps the occupied volume of no placed box. *)
C28_SpacesFree ==
    pc # "start" =>
        \A i \in 1..Len(spaces) :
            /\ RegionInContainer(RegionOfSpace(spaces[i]))
            /\ \A k \in Indices(packedBoxes) :
                  ~RegionsOverlap(RegionOfSpace(spaces[i]),
                                  RegionOfBox(packedBoxes[k]))

(* three boxes placed, one of them turned or laid on its side, and three   *)
(* spaces left, one of them touching the far wall on every axis            *)
C28_Witness ==
    /\ Len(packedBoxes) >= 3
    /\ Len(spaces) >= 3
    /\ \E k \in Indices(packedBoxes) : ~InSpecOrder(packedBoxes[k])
    /\ \E i \in 1..Len(spaces) :
          /\ spaces[i].x + spaces[i].length = container.length
          /\ spaces[i].z + spaces[i].width = container.width
          /\ spaces[i].y + spaces[i].height = container.height

----------------------------------------------------------------------------
(* the instance indices of the placed boxes of the box type with this id,  *)
(* read from the ids of the placed boxes (id_index)                        *)
PlacedInstances(boxes, id) ==
    {boxes[k].id[2] : k \in {n \in Indices(boxes) : boxes[n].id[1] = id}}

(* the unit has been placed *)
IsPlaced(unit) ==
    \E k \in Indices(packedBoxes) : packedBoxes[k].id = UnitId(unit)

PrefixPlaced(boxes) ==
    /\ \A k \in Indices(boxes) : boxes[k].id[1] = boxes[k].boxType.id
    /\ \A i \in 1..Len(boxTypes) :
          PlacedInstances(boxes, boxTypes[i].id)
             = 0..(PlacedOf(boxes, boxTypes[i].id) - 1)
    /\ \A j, k \in Indices(boxes) : j # k => boxes[j].id # boxes[k].id

(* C29: for each box type the placed units are a prefix of its instances:  *)
(* once a unit of a box type has failed, every later unit of that box type *)
(* fails too; so the k placed units of the box type with id X have the ids *)
(* X_0 .. X_(k-1), and the ids of the placed boxes are pairwise distinct.  *)
C29_PlacedPrefix ==
    /\ PrefixPlaced(packedBoxes)
    /\ Done => PrefixPlaced(result.boxes)
    /\ pc # "start" =>
          \A a, b \in 1..Len(boxesToPlace) :
              ( /\ a < b
                /\ b < unitIdx
                /\ boxesToPlace[a].boxType.id = boxesToPlace[b].boxType.id
                /\ ~IsPlaced(boxesToPlace[a]) )
                 => ~IsPlaced(boxesToPlace[b])

(* a result with boxes of two box types, one of which has two units placed *)
(* and a unit left                                                         *)
C29_Witness ==
    /\ Done
    /\ \E i \in 1..Len(boxTypes) :
          /\ PlacedOf(result.boxes, boxTypes[i].id) >= 2
          /\ PlacedOf(result.boxes, boxTypes[i].id) < boxTypes[i].quantity
          /\ Len(result.boxes) > PlacedOf(result.boxes, boxTypes[i].id)

----------------------------------------------------------------------------
(* at most one recalculation is pending, and one is pending or executing   *)
(* exactly while isRecalculating is true, when the button is disabled      *)
OnePending ==
    /\ Len(ui.timers) <= 1
    /\ ui.isRecalculating = (ui.timers # <<>> \/ ui.running)
    /\ ui.isRecalculating => RecalculateDisabled

(* the packBoxes call of the callback runs on the box types as they were   *)
(* at the click                                                            *)
RunsOnClicked == ui.running => boxTypes = ui.clicked

(* the step that ends the callback installs the result packBoxes returned  *)
(* for the box types as they were at the click                             *)
InstallsClicked ==
    (ui.running /\ ~ui'.running) =>
        /\ Done
        /\ boxTypes = ui.clicked
        /\ ui'.packingResult = result
        /\ ui'.packingResult.stats.totalBoxes = TotalQuantity(ui.clicked)
        /\ ~ui'.isRecalculating
        /\ ui'.boxTypes = ui.boxTypes

(* C30: in the recalculation flow the PackingResult installed when the     *)
(* 100 ms timer fires is packBoxes applied to the box quantities as they   *)
(* were when Recalculate was clicked; a quantity edit made between the     *)
(* click and the firing is not reflected in it; while isRecalculating is   *)
(* true the Recalculate button is disabled, so at most one recalculation   *)
(* is pending.                                                             *)
C30_RecalculateFlow ==
    /\ [](OnePending /\ RunsOnClicked)
    /\ [][InstallsClicked]_vars

(* a result is installed for the quantities of the click while the editor  *)
(* shows other quantities, edited between the click and the firing, with   *)
(* another number of units                                                 *)
C30_Witness ==
    /\ ~ui.isRecalculating
    /\ ui.edited
    /\ ui.boxTypes # ui.clicked
    /\ ui.packingResult.stats.totalBoxes = TotalQuantity(ui.clicked)
    /\ TotalQuantity(ui.boxTypes) # TotalQuantity(ui.clicked)
    /\ Len(ui.packingResult.boxes) >= 2

====
